---------------------------- MODULE Spec2Model ----------------------------
(***************************************************************************)
(* A model of the complaint-analysis pipeline of delhigrid:                *)
(*   src/src/lib/gemini.ts  analyzeComplaint, the response interpreter.    *)
(*                                                                         *)
(* Conventions.                                                            *)
(*  - A JavaScript string is a sequence of one-character strings, so that  *)
(*    toLowerCase, trim, parseFloat and the like are computed character by *)
(*    character.                                                           *)
(*  - A JavaScript number is fixed-point with one decimal digit: the       *)
(*    number x is the integer 10x (3.5 is 35, 250 is 2500).  The inputs    *)
(*    drawn below have at most one digit after the point.                  *)
(*  - A JavaScript value is a record [t, n, s]: its type tag, its number   *)
(*    (when t = "number") and its characters (when t = "string").          *)
(***************************************************************************)
EXTENDS Integers, Sequences, FiniteSets, TLC

----------------------------------------------------------------------------
(* Characters and strings                                                  *)

UpperChars ==
  <<"A","B","C","D","E","F","G","H","I","J","K","L","M",
    "N","O","P","Q","R","S","T","U","V","W","X","Y","Z">>

LowerChars ==
  <<"a","b","c","d","e","f","g","h","i","j","k","l","m",
    "n","o","p","q","r","s","t","u","v","w","x","y","z">>

DigitChars == <<"0","1","2","3","4","5","6","7","8","9">>

WhiteSpace == {" ", "\t", "\n"}

IsDigit(c) == \E i \in DOMAIN DigitChars : DigitChars[i] = c

DigitVal(c) == (CHOOSE i \in DOMAIN DigitChars : DigitChars[i] = c) - 1

\* String.prototype.toLowerCase on one character
ToLowerChar(c) ==
  IF \E i \in DOMAIN UpperChars : UpperChars[i] = c
  THEN LowerChars[CHOOSE i \in DOMAIN UpperChars : UpperChars[i] = c]
  ELSE c

\* String.prototype.toLowerCase
ToLowerCase(s) == [i \in DOMAIN s |-> ToLowerChar(s[i])]

RECURSIVE TrimStart(_)
TrimStart(s) ==
  IF s # <<>> /\ Head(s) \in WhiteSpace THEN TrimStart(Tail(s)) ELSE s

RECURSIVE TrimEnd(_)
TrimEnd(s) ==
  IF s # <<>> /\ s[Len(s)] \in WhiteSpace
  THEN TrimEnd(SubSeq(s, 1, Len(s) - 1))
  ELSE s

\* String.prototype.trim
Trim(s) == TrimEnd(TrimStart(s))

\* replace(/\\(.)/g, "$1"): a backslash followed by a character other than a
\* line break is dropped and the character kept (and not looked at again)
RECURSIVE Unescape(_)
Unescape(s) ==
  IF s = <<>> THEN <<>>
  ELSE IF Head(s) = "\\" /\ Len(s) >= 2 /\ s[2] # "\n"
       THEN <<s[2]>> \o Unescape(SubSeq(s, 3, Len(s)))
       ELSE <<Head(s)>> \o Unescape(Tail(s))

\* replace("s", ""): the first "s" only
RECURSIVE DropFirstS(_)
DropFirstS(s) ==
  IF s = <<>> THEN <<>>
  ELSE IF Head(s) = "s" THEN Tail(s)
       ELSE <<Head(s)>> \o DropFirstS(Tail(s))

\* the decimal digits of a natural number, as `${n}` prints them
RECURSIVE NatToChars(_)
NatToChars(n) ==
  IF n < 10 THEN <<DigitChars[n + 1]>>
  ELSE NatToChars(n \div 10) \o <<DigitChars[(n % 10) + 1]>>

----------------------------------------------------------------------------
(* Numbers: fixed point, one decimal digit                                 *)

Whole(k) == k * 10

IsInteger(x) == x % 10 = 0

\* Math.ceil, as an integer
Ceil(x) == -((-x) \div 10)

\* the length of the longest prefix of s made of digits
RECURSIVE DigitRun(_)
DigitRun(s) ==
  IF s # <<>> /\ IsDigit(Head(s)) THEN 1 + DigitRun(Tail(s)) ELSE 0

\* the value of a sequence of digits, as an integer
RECURSIVE DigitsValue(_)
DigitsValue(s) ==
  IF s = <<>> THEN 0
  ELSE DigitsValue(SubSeq(s, 1, Len(s) - 1)) * 10 + DigitVal(s[Len(s)])

\* The longest prefix of s that is a decimal literal [+-]digits[.digits] or
\* [+-].digits: [len |-> characters consumed (0: none), val |-> its value].
\* Only the first digit after the point contributes to val.
NumPrefix(s) ==
  LET sgn  == IF s # <<>> /\ Head(s) \in {"-", "+"} THEN 1 ELSE 0
      neg  == s # <<>> /\ Head(s) = "-"
      r    == SubSeq(s, sgn + 1, Len(s))
      ni   == DigitRun(r)
      r2   == SubSeq(r, ni + 1, Len(r))
      dot  == r2 # <<>> /\ Head(r2) = "."
      nf   == IF dot THEN DigitRun(Tail(r2)) ELSE 0
      ival == DigitsValue(SubSeq(r, 1, ni))
      fval == IF nf > 0 THEN DigitVal(r2[2]) ELSE 0
      mag  == Whole(ival) + fval
  IN  IF ni = 0 /\ nf = 0 THEN [len |-> 0, val |-> 0]
      ELSE [len |-> sgn + ni + (IF dot THEN 1 + nf ELSE 0),
            val |-> IF neg THEN -mag ELSE mag]

----------------------------------------------------------------------------
(* JavaScript values                                                       *)

Undefined == [t |-> "undefined", n |-> 0, s |-> <<>>]
Null      == [t |-> "null", n |-> 0, s |-> <<>>]
NaN       == [t |-> "nan", n |-> 0, s |-> <<>>]
Num(x)    == [t |-> "number", n |-> x, s |-> <<>>]
Str(cs)   == [t |-> "string", n |-> 0, s |-> cs]
Bool(b)   == [t |-> "boolean", n |-> IF b THEN 1 ELSE 0, s |-> <<>>]

\* ToBoolean: what `||`, `?:` and `if` test
Truthy(v) ==
  CASE v.t \in {"undefined", "null", "nan"} -> FALSE
    [] v.t = "number"  -> v.n # 0
    [] v.t = "string"  -> v.s # <<>>
    [] v.t = "boolean" -> v.n = 1
    [] OTHER -> TRUE

\* a || b
OrElse(a, b) == IF Truthy(a) THEN a ELSE b

\* parseFloat(string)
ParseFloat(cs) ==
  LET p == NumPrefix(TrimStart(cs))
  IN  IF p.len = 0 THEN NaN ELSE Num(p.val)

\* parseInt(string, 10) of a string of digits
ParseInt(cs) == Num(Whole(DigitsValue(cs)))

\* Number(v)
ToNumber(v) ==
  CASE v.t = "undefined" -> NaN
    [] v.t = "null"      -> Num(0)
    [] v.t = "nan"       -> NaN
    [] v.t = "number"    -> v
    [] v.t = "boolean"   -> Num(Whole(v.n))
    [] v.t = "string"    ->
         LET cs == Trim(v.s)
             p  == NumPrefix(cs)
         IN  IF cs = <<>> THEN Num(0)
             ELSE IF p.len = Len(cs) /\ p.len > 0 THEN Num(p.val) ELSE NaN
    [] OTHER -> NaN

\* String(v), for the values a retryDelay takes
ToStr(v) ==
  CASE v.t = "string" -> v.s
    [] v.t = "number" /\ v.n >= 0 /\ IsInteger(v.n) -> NatToChars(v.n \div 10)
    [] OTHER -> <<"?">>

----------------------------------------------------------------------------
(* Program constants of src/src/lib/gemini.ts                              *)

\* Math.min(250, ...)
MaxWard == 250

\* Math.max(1, ...), and the last default of `|| fallbackWardId || 1`
MinWard == 1

\* let retrySec = 60, and `|| 60`
DefaultRetrySec == 60

\* const GEMINI_MODELS = ["gemini-2.5-flash"]
GEMINI_MODELS == <<"gemini-2.5-flash">>

Air       == <<"a","i","r">>
Water     == <<"w","a","t","e","r">>
Noise     == <<"n","o","i","s","e">>
Transport == <<"t","r","a","n","s","p","o","r","t">>
Soil      == <<"s","o","i","l">>
Land      == <<"l","a","n","d">>

\* const CATEGORIES
CATEGORIES == {Air, Water, Noise, Transport, Soil, Land}

\* "Thank you for reporting. Our team will look into this."
GenericSuggestion ==
  <<"T","h","a","n","k"," ","y","o","u"," ","f","o","r"," ",
    "r","e","p","o","r","t","i","n","g","."," ","O","u","r"," ",
    "t","e","a","m"," ","w","i","l","l"," ","l","o","o","k"," ",
    "i","n","t","o"," ","t","h","i","s",".">>

----------------------------------------------------------------------------
(* The ward gazetteer, `wards` of @/data/wards.  The data file is not part *)
(* of the sources at hand: a gazetteer is the set of ward ids that have an *)
(* entry, and the entry of ward k carries the name CanonicalName(k).       *)

CanonicalName(k) == <<"N","o",".">> \o NatToChars(k)

\* the 250 wards of Delhi
FullGazetteer == MinWard..MaxWard

\* a curated area map that lacks most ids
CuratedGazetteer == {1, 10, 45, 250}

Gazetteers == {FullGazetteer, CuratedGazetteer}

\* wards.find((w) => w.id === id), id a fixed-point number: the ward id of
\* the entry found, 0 when there is none
FindWard(gaz, id) ==
  IF IsInteger(id) /\ (id \div 10) \in gaz THEN id \div 10 ELSE 0

----------------------------------------------------------------------------
(* Errors: new Error(...) of each throw or lastError assignment            *)

NoError == [kind |-> "none", n |-> 0]

\* "Gemini API key not configured. Add VITE_GEMINI_API_KEY to .env"
ConfigError == [kind |-> "config", n |-> 0]

\* `Gemini API rate limit reached. Please wait ${n} seconds and try again...`
RateLimitError(n) == [kind |-> "rate_limit", n |-> n]

\* `Gemini API error: ${status} - ...`
ApiError(status) == [kind |-> "api_error", n |-> status]

\* "No response from Gemini"
NoResponseError == [kind |-> "no_response", n |-> 0]

\* "Gemini API request failed"
GenericError == [kind |-> "generic", n |-> 0]

\* an exception caught by the loop's catch: a rejected fetch, a body that is
\* not JSON, a TypeError raised while the response is interpreted
NetworkError == [kind |-> "network", n |-> 0]
BodyError    == [kind |-> "body", n |-> 0]
TypeError    == [kind |-> "type_error", n |-> 0]

----------------------------------------------------------------------------
(* The body of a 429 response, as lines 111-116 read it.                   *)
(*   parses:  whether res.json() resolves                                  *)
(*   isArray: whether data.error.details is there and has a find method    *)
(*   delays:  the retryDelay of each entry of data.error.details           *)
(*            (Undefined for an entry without one)                         *)

RateBody(parses, isArray, delays) ==
  [parses |-> parses, isArray |-> isArray, delays |-> delays]

\* details.find((d) => d.retryDelay)?.retryDelay
FirstRetryDelay(delays) ==
  IF \E i \in DOMAIN delays : Truthy(delays[i])
  THEN delays[CHOOSE i \in DOMAIN delays :
                /\ Truthy(delays[i])
                /\ \A j \in 1..(i - 1) : ~Truthy(delays[j])]
  ELSE Undefined

\* RetrySec without the `|| 60` of line 115: a delay that parses to 0 or to
\* NaN is kept.  C10 fails on it.
RetrySecWithoutDefault(body) ==
  LET retryDelay == FirstRetryDelay(body.delays)
  IN  IF body.parses /\ body.isArray /\ Truthy(retryDelay)
      THEN ParseFloat(DropFirstS(ToStr(retryDelay))).n
      ELSE Whole(DefaultRetrySec)

\* lines 111-116: retrySec, a fixed-point number
RetrySec(body) ==
  LET retryDelay == FirstRetryDelay(body.delays)
  IN  IF body.parses /\ body.isArray /\ Truthy(retryDelay)
      THEN OrElse(ParseFloat(DropFirstS(ToStr(retryDelay))),
                  Num(Whole(DefaultRetrySec))).n
      ELSE Whole(DefaultRetrySec)

\* lines 117-119: the rate-limit error, with ${Math.ceil(retrySec)}
RateLimitErrorOf(body) == RateLimitError(Ceil(RetrySec(body)))

----------------------------------------------------------------------------
(* The text of a 2xx response after the fences are stripped (jsonStr), by  *)
(* what JSON.parse and the four patterns of lines 148-151 make of it.      *)
(*   tier "json":  JSON.parse returns a value of the given kind; for an    *)
(*                 object, the four fields are its properties (Undefined   *)
(*                 for one it lacks)                                       *)
(*   tier "regex": JSON.parse throws; the four fields are the first        *)
(*                 capture group of each pattern (Undefined: no match)     *)

Payload(tier, kind, category, suggestion, ward_id, ward_name) ==
  [tier |-> tier, kind |-> kind, category |-> category,
   suggestion |-> suggestion, ward_id |-> ward_id, ward_name |-> ward_name]

JsonObject(category, suggestion, ward_id, ward_name) ==
  Payload("json", "object", category, suggestion, ward_id, ward_name)

JsonOther(kind) ==
  Payload("json", kind, Undefined, Undefined, Undefined, Undefined)

RegexMatches(catMatch, sugMatch, wardIdMatch, wardNameMatch) ==
  Payload("regex", "none", catMatch, sugMatch, wardIdMatch, wardNameMatch)

----------------------------------------------------------------------------
(* jsonStr character by character: the code fences of lines 138-141,       *)
(* JSON.parse of line 145 and the four patterns of lines 148-151           *)

\* the grave accent, which no string of TLA+ holds, is written "^"
Fence == <<"^","^","^">>

\* s has the characters of lit at position i
HasAt(s, i, lit) ==
  /\ i >= 1
  /\ i + Len(lit) - 1 <= Len(s)
  /\ SubSeq(s, i, i + Len(lit) - 1) = lit

\* \s*: the position after the white space that starts at position i
RECURSIVE SkipSpace(_, _)
SkipSpace(s, i) ==
  IF i <= Len(s) /\ s[i] \in WhiteSpace THEN SkipSpace(s, i + 1) ELSE i

\* StripOpeningFence without the i flag: ```JSON is left in place.  C12
\* fails on it.
StripOpeningFenceCaseSensitive(s) ==
  IF ~HasAt(s, 1, Fence) THEN s
  ELSE LET r == SubSeq(s, 4, Len(s))
       IN  TrimStart(IF HasAt(r, 1, <<"j","s","o","n">>)
                     THEN SubSeq(r, 5, Len(r)) ELSE r)

\* line 139: replace(/^```(?:json)?\s*/i, "")
StripOpeningFence(s) ==
  IF ~HasAt(s, 1, Fence) THEN s
  ELSE LET r == SubSeq(s, 4, Len(s))
       IN  TrimStart(IF Len(r) >= 4 /\ ToLowerCase(SubSeq(r, 1, 4)) = <<"j","s","o","n">>
                     THEN SubSeq(r, 5, Len(r)) ELSE r)

\* line 140: replace(/\s*```\s*$/, ""): the match is the last fence when
\* only white space follows it, with the white space before it
StripClosingFence(s) ==
  LET t == TrimEnd(s)
  IN  IF HasAt(t, Len(t) - 2, Fence)
      THEN TrimEnd(SubSeq(t, 1, Len(t) - 3))
      ELSE s

\* lines 138-141: jsonStr
StripFences(text) == Trim(StripClosingFence(StripOpeningFence(text)))

\* What a parser of JSON makes of a text from position i: whether it read a
\* value, the position after it, and the value.
JsonFail == [ok |-> FALSE, next |-> 0, v |-> Undefined]
JsonOk(next, v) == [ok |-> TRUE, next |-> next, v |-> v]

\* a JSON string after its opening quote: no raw line break or tab, and the
\* escapes \" \\ \/ \n \t (the others are not drawn)
RECURSIVE JsonStringFrom(_, _, _)
JsonStringFrom(s, i, acc) ==
  IF i > Len(s) THEN JsonFail
  ELSE IF s[i] = "\"" THEN JsonOk(i + 1, Str(acc))
  ELSE IF s[i] \in {"\n", "\t"} THEN JsonFail
  ELSE IF s[i] # "\\" THEN JsonStringFrom(s, i + 1, Append(acc, s[i]))
  ELSE IF i + 1 > Len(s) THEN JsonFail
  ELSE IF s[i + 1] \in {"\"", "\\", "/"}
       THEN JsonStringFrom(s, i + 2, Append(acc, s[i + 1]))
  ELSE IF s[i + 1] = "n" THEN JsonStringFrom(s, i + 2, Append(acc, "\n"))
  ELSE IF s[i + 1] = "t" THEN JsonStringFrom(s, i + 2, Append(acc, "\t"))
  ELSE JsonFail

\* a JSON number -?digits(.digits)? (exponents are not drawn); no leading
\* zero before another digit
JsonNumberAt(s, i) ==
  LET neg   == i <= Len(s) /\ s[i] = "-"
      a     == IF neg THEN i + 1 ELSE i
      ni    == DigitRun(SubSeq(s, a, Len(s)))
      b     == a + ni
      frac  == b <= Len(s) /\ s[b] = "."
      nf    == IF frac THEN DigitRun(SubSeq(s, b + 1, Len(s))) ELSE 0
      mag   == Whole(DigitsValue(SubSeq(s, a, b - 1)))
                 + (IF nf > 0 THEN DigitVal(s[b + 1]) ELSE 0)
  IN  IF ni = 0 \/ (ni > 1 /\ s[a] = "0") \/ (frac /\ nf = 0)
      THEN JsonFail
      ELSE JsonOk(IF frac THEN b + 1 + nf ELSE b,
                  Num(IF neg THEN -mag ELSE mag))

\* a string, null, true, false or a number at position i
JsonScalarAt(s, i) ==
  IF i > Len(s) THEN JsonFail
  ELSE IF s[i] = "\"" THEN JsonStringFrom(s, i + 1, <<>>)
  ELSE IF HasAt(s, i, <<"n","u","l","l">>) THEN JsonOk(i + 4, Null)
  ELSE IF HasAt(s, i, <<"t","r","u","e">>) THEN JsonOk(i + 4, Bool(TRUE))
  ELSE IF HasAt(s, i, <<"f","a","l","s","e">>) THEN JsonOk(i + 5, Bool(FALSE))
  ELSE JsonNumberAt(s, i)

\* the object with the member key: v added (the four properties the code
\* reads are kept, a repeated key takes the later value)
WithMember(obj, key, v) ==
  IF key = <<"c","a","t","e","g","o","r","y">> THEN [obj EXCEPT !.category = v]
  ELSE IF key = <<"s","u","g","g","e","s","t","i","o","n">> THEN [obj EXCEPT !.suggestion = v]
  ELSE IF key = <<"w","a","r","d","_","i","d">> THEN [obj EXCEPT !.ward_id = v]
  ELSE IF key = <<"w","a","r","d","_","n","a","m","e">> THEN [obj EXCEPT !.ward_name = v]
  ELSE obj

\* the members of an object from position i (the opening quote of a key) to
\* its closing brace; the member values drawn are scalars
RECURSIVE JsonMembersFrom(_, _, _)
JsonMembersFrom(s, i, obj) ==
  IF i > Len(s) \/ s[i] # "\"" THEN JsonFail
  ELSE
    LET key == JsonStringFrom(s, i + 1, <<>>)
        c   == SkipSpace(s, key.next)
    IN  IF ~key.ok \/ c > Len(s) \/ s[c] # ":" THEN JsonFail
        ELSE
          LET val == JsonScalarAt(s, SkipSpace(s, c + 1))
              e   == SkipSpace(s, val.next)
          IN  IF ~val.ok \/ e > Len(s) THEN JsonFail
              ELSE IF s[e] = "}"
                   THEN JsonOk(e + 1, WithMember(obj, key.v.s, val.v))
              ELSE IF s[e] = ","
                   THEN JsonMembersFrom(s, SkipSpace(s, e + 1),
                                        WithMember(obj, key.v.s, val.v))
              ELSE JsonFail

\* a JSON value at position i, as the payload it makes: an object, an empty
\* array, or a scalar
JsonValueAt(s, i) ==
  LET j == SkipSpace(s, i + 1)
      empty == JsonObject(Undefined, Undefined, Undefined, Undefined)
  IN  IF i > Len(s) THEN JsonFail
      ELSE IF s[i] = "{"
           THEN IF j <= Len(s) /\ s[j] = "}" THEN JsonOk(j + 1, empty)
                ELSE JsonMembersFrom(s, j, empty)
      ELSE IF s[i] = "["
           THEN IF j <= Len(s) /\ s[j] = "]"
                THEN JsonOk(j + 1, JsonOther("array"))
                ELSE JsonFail
      ELSE LET v == JsonScalarAt(s, i)
           IN  IF v.ok THEN JsonOk(v.next, JsonOther(v.v.t)) ELSE JsonFail

\* JSON.parse throws a SyntaxError
SyntaxError ==
  Payload("regex", "none", Undefined, Undefined, Undefined, Undefined)

\* line 145: JSON.parse(jsonStr): one value between optional white space
JsonParse(jsonStr) ==
  LET r == JsonValueAt(jsonStr, SkipSpace(jsonStr, 1))
  IN  IF r.ok /\ SkipSpace(jsonStr, r.next) > Len(jsonStr) THEN r.v
      ELSE SyntaxError

\* "key"\s*:\s* at position i: the position after it, or 0 when it is not
\* there
AfterKey(s, i, key) ==
  LET j == SkipSpace(s, i + Len(key) + 2)
  IN  IF HasAt(s, i, <<"\"">> \o key \o <<"\"">>) /\ j <= Len(s) /\ s[j] = ":"
      THEN SkipSpace(s, j + 1)
      ELSE 0

\* the position of the first double quote from position i on, or 0
RECURSIVE NextQuote(_, _)
NextQuote(s, i) ==
  IF i > Len(s) THEN 0
  ELSE IF s[i] = "\"" THEN i
  ELSE NextQuote(s, i + 1)

\* (?:[^"\\]|\\.)*" from position i: the position of the closing quote, or
\* 0 when a backslash ends the text or stands before a line break
RECURSIVE EscapedEnd(_, _)
EscapedEnd(s, i) ==
  IF i > Len(s) THEN 0
  ELSE IF s[i] = "\"" THEN i
  ELSE IF s[i] # "\\" THEN EscapedEnd(s, i + 1)
  ELSE IF i + 1 <= Len(s) /\ s[i + 1] # "\n" THEN EscapedEnd(s, i + 2)
  ELSE 0

\* the capture of "([^"]+)" (least = 1) or "([^"]*)" (least = 0) at
\* position j, or Undefined
QuotedAt(s, j, least) ==
  LET k == NextQuote(s, j + 1)
  IN  IF j >= 1 /\ j <= Len(s) /\ s[j] = "\"" /\ k # 0 /\ k - j - 1 >= least
      THEN Str(SubSeq(s, j + 1, k - 1))
      ELSE Undefined

\* the capture of "((?:[^"\\]|\\.)*)" at position j, or Undefined
EscapedAt(s, j) ==
  LET k == EscapedEnd(s, j + 1)
  IN  IF j >= 1 /\ j <= Len(s) /\ s[j] = "\"" /\ k # 0
      THEN Str(SubSeq(s, j + 1, k - 1))
      ELSE Undefined

\* the capture of (\d+) at position j, or Undefined
DigitsAt(s, j) ==
  LET n == DigitRun(SubSeq(s, j, Len(s)))
  IN  IF j >= 1 /\ n > 0 THEN Str(SubSeq(s, j, j + n - 1)) ELSE Undefined

\* String.prototype.match without the g flag: the capture of the leftmost
\* match, where At(i) is the capture of a match that starts at position i
FirstMatch(s, At(_)) ==
  LET hits == {i \in 1..Len(s) : At(i) # Undefined}
  IN  IF hits = {} THEN Undefined
      ELSE At(CHOOSE i \in hits : \A h \in hits : i <= h)

\* line 148
catMatch(jsonStr) ==
  LET At(i) == QuotedAt(jsonStr, AfterKey(jsonStr, i, <<"c","a","t","e","g","o","r","y">>), 1)
  IN  FirstMatch(jsonStr, At)

\* sugMatch with the pattern "([^"]*)", which stops at an escaped quote.
\* C11 fails on it.
sugMatchUpToQuote(jsonStr) ==
  LET At(i) == QuotedAt(jsonStr, AfterKey(jsonStr, i, <<"s","u","g","g","e","s","t","i","o","n">>), 0)
  IN  FirstMatch(jsonStr, At)

\* line 149
sugMatch(jsonStr) ==
  LET At(i) == EscapedAt(jsonStr, AfterKey(jsonStr, i, <<"s","u","g","g","e","s","t","i","o","n">>))
  IN  FirstMatch(jsonStr, At)

\* line 150
wardIdMatch(jsonStr) ==
  LET At(i) == DigitsAt(jsonStr, AfterKey(jsonStr, i, <<"w","a","r","d","_","i","d">>))
  IN  FirstMatch(jsonStr, At)

\* line 151
wardNameMatch(jsonStr) ==
  LET At(i) == QuotedAt(jsonStr, AfterKey(jsonStr, i, <<"w","a","r","d","_","n","a","m","e">>), 0)
  IN  FirstMatch(jsonStr, At)

\* lines 138-151: what the trimmed text of a response is read as
PayloadOfText(text) ==
  LET jsonStr == StripFences(text)
      value   == JsonParse(jsonStr)
  IN  IF value # SyntaxError THEN value
      ELSE RegexMatches(catMatch(jsonStr), sugMatch(jsonStr),
                        wardIdMatch(jsonStr), wardNameMatch(jsonStr))

\* lines 143-158: `parsed`
Parsed(payload, fallbackWardId) ==
  IF payload.tier = "json" THEN payload
  ELSE [payload EXCEPT
          !.kind = "object",
          !.category = OrElse(payload.category, Str(Land)),
          !.suggestion =
             OrElse(IF payload.suggestion.t = "undefined" THEN Undefined
                    ELSE Str(Unescape(payload.suggestion.s)),
                    Str(GenericSuggestion)),
          !.ward_id =
             IF payload.ward_id.t # "undefined"
             THEN ParseInt(payload.ward_id.s)
             ELSE OrElse(fallbackWardId, Num(Whole(MinWard))),
          !.ward_name = OrElse(payload.ward_name, Str(<<>>))]

\* reading a property of `parsedTyped`: undefined on a number, a string, a
\* boolean or an array
Field(parsed, name) ==
  IF parsed.kind = "object" THEN parsed[name] ELSE Undefined

\* lines 166-190 throw a TypeError, which the catch of line 188 records:
\* a property read on null (line 166), or toLowerCase called on a category
\* that is neither a string nor undefined/null
Throws(parsed) ==
  \/ parsed.kind = "null"
  \/ Field(parsed, "category").t \notin {"undefined", "null", "string"}

\* ValidCategory without the toLowerCase of line 166.  C3 fails on it.
ValidCategoryCaseSensitive(parsed) ==
  LET c == Field(parsed, "category")
  IN  IF c.t = "string" /\ c.s \in CATEGORIES THEN c.s ELSE Land

\* lines 166-169: validCategory
ValidCategory(parsed) ==
  LET c == Field(parsed, "category")
      category == IF c.t = "string" THEN ToLowerCase(c.s) ELSE <<>>
  IN  IF c.t = "string" /\ category \in CATEGORIES THEN category ELSE Land

Min(a, b) == IF a < b THEN a ELSE b
Max(a, b) == IF a > b THEN a ELSE b

\* line 171: Math.min(250, Math.max(1, Number(ward_id) || fallbackWardId || 1))
ClampedWardId(parsed, fallbackWardId) ==
  LET n == OrElse(OrElse(ToNumber(Field(parsed, "ward_id")), fallbackWardId),
                  Num(Whole(MinWard)))
  IN  Min(Whole(MaxWard), Max(Whole(MinWard), n.n))

\* ResolvedWard that keeps a ward_name the response gave and takes the
\* gazetteer's name only when it gave none.  C7 fails on it.
ResolvedWardTrustingName(parsed, fallbackWardId, gaz) ==
  LET wardId   == ClampedWardId(parsed, fallbackWardId)
      wardName == OrElse(Field(parsed, "ward_name"), Str(<<>>))
      matched  == FindWard(gaz, wardId)
      fbName   == IF FindWard(gaz, fallbackWardId.n) # 0
                  THEN Str(CanonicalName(FindWard(gaz, fallbackWardId.n)))
                  ELSE Str(<<"W","a","r","d"," ">>
                             \o NatToChars(fallbackWardId.n \div 10))
  IN  IF matched # 0
      THEN [wardId |-> wardId,
            wardName |-> OrElse(wardName, Str(CanonicalName(matched)))]
      ELSE IF Truthy(fallbackWardId)
           THEN [wardId |-> fallbackWardId.n,
                 wardName |-> OrElse(wardName, fbName)]
           ELSE [wardId |-> wardId, wardName |-> wardName]

\* lines 171-178: [wardId, wardName]
ResolvedWard(parsed, fallbackWardId, gaz) ==
  LET wardId   == ClampedWardId(parsed, fallbackWardId)
      wardName == OrElse(Field(parsed, "ward_name"), Str(<<>>))
      matched  == FindWard(gaz, wardId)
  IN  IF matched # 0
      THEN [wardId |-> wardId, wardName |-> Str(CanonicalName(matched))]
      ELSE IF Truthy(fallbackWardId)
           THEN [wardId |-> fallbackWardId.n,
                 wardName |->
                   IF FindWard(gaz, fallbackWardId.n) # 0
                   THEN Str(CanonicalName(FindWard(gaz, fallbackWardId.n)))
                   ELSE Str(<<"W","a","r","d"," ">>
                              \o NatToChars(fallbackWardId.n \div 10))]
           ELSE [wardId |-> wardId, wardName |-> wardName]

\* lines 182-184
SuggestionOf(parsed) ==
  OrElse(Field(parsed, "suggestion"), Str(GenericSuggestion))

\* lines 180-187: the GeminiAnalysis returned
Analysis(parsed, fallbackWardId, gaz) ==
  LET w == ResolvedWard(parsed, fallbackWardId, gaz)
  IN  [category |-> ValidCategory(parsed),
       suggestion |-> SuggestionOf(parsed),
       wardId |-> w.wardId,
       wardName |-> w.wardName]

NoAnalysis ==
  [category |-> <<>>, suggestion |-> Undefined, wardId |-> 0,
   wardName |-> Undefined]

----------------------------------------------------------------------------
(* Inputs: what the caller passes and what the endpoint answers            *)

\* the longest model list explored besides the shipped one
MaxModels == 2

ModelList(n) == [i \in 1..n |-> "model-" \o ToString(i)]

\* the shipped list, and lists of 2..MaxModels models as the comment of
\* line 9 describes (a first model and its fallbacks)
ModelLists == {GEMINI_MODELS} \cup {ModelList(n) : n \in 2..MaxModels}

\* fallbackWardId: absent, or the caller's ward (1..250)
Fallbacks == {Undefined, Num(Whole(10)), Num(Whole(42)), Num(Whole(MaxWard))}

CategoryValues ==
  {Undefined, Null, Num(Whole(5)), Bool(FALSE), Str(<<>>),
   Str(Air), Str(<<"A","i","r">>), Str(<<"W","A","T","E","R">>), Str(Noise),
   Str(<<"T","r","a","n","s","p","o","r","t">>), Str(<<"S","o","i","l">>),
   Str(<<"L","A","N","D">>), Str(<<"f","i","r","e">>)}

LongSuggestion ==
  <<"C","a","l","l"," ","M","C","D"," ","o","n"," ","1","5","5","3","0","5">>

SuggestionValues ==
  {Undefined, Str(<<>>), Str(<<" "," ">>), Str(<<"o","k">>),
   Str(<<" ","C","a","l","l"," ","3","1","1"," ">>), Str(LongSuggestion)}

WardIdValues ==
  {Undefined, Null, Str(<<"a","b","c">>), Str(<<"1","2">>),
   Num(0), Num(-30), Num(5), Num(Whole(1)), Num(35), Num(Whole(7)),
   Num(Whole(MaxWard)), Num(Whole(MaxWard) + 5), Num(Whole(MaxWard + 1)),
   Num(Whole(999))}

WardNameValues == {Undefined, Str(<<"R","o","h","i","n","i">>)}

CategoryMatches == {Undefined, Str(<<"S","o","i","l">>), Str(<<"f","i","r","e">>)}

\* captures of "((?:[^"\\]|\\.)*)": still escaped
SuggestionMatches ==
  {Undefined, Str(<<>>), Str(<<"o","k">>), Str(<<" "," ">>),
   Str(<<"S","a","y"," ","\\","\"","h","i","\\","\""," ","t","o"," ","M","C","D">>)}

\* captures of (\d+)
WardIdMatches ==
  {Undefined, Str(<<"0">>), Str(<<"1","2">>), Str(<<"3","0","0">>)}

WardNameMatches == {Undefined, Str(<<"R","o","h","i","n","i">>)}

\* The payloads drawn: objects that vary category and suggestion, objects
\* that vary ward_id and ward_name, the JSON values that are no object, and
\* the texts JSON.parse rejects.
Payloads ==
       {JsonObject(c, s, Num(Whole(7)), Str(<<"R","o","h","i","n","i">>)) :
          c \in CategoryValues, s \in SuggestionValues}
  \cup {JsonObject(Str(Air), Str(LongSuggestion), w, n) :
          w \in WardIdValues, n \in WardNameValues}
  \cup {JsonOther(k) : k \in {"null", "array", "number", "string", "boolean"}}
  \cup {RegexMatches(c, s, Undefined, Undefined) :
          c \in CategoryMatches, s \in SuggestionMatches}
  \cup {RegexMatches(Undefined, Undefined, w, n) :
          w \in WardIdMatches, n \in WardNameMatches}

\* data.candidates?.[0]?.content?.parts?.[0]?.text: missing, empty, blank,
\* or a text ("#" stands for the characters of the payload)
EmptyTexts == {Undefined, Str(<<>>), Str(<<" ","\n">>)}
PayloadText == Str(<<"\n","#"," ">>)

\* The texts drawn character by character are written as line 77 asks: an
\* object of the four fields.  What a JSON writer puts for a string: \" for
\* a quote and \\ for a backslash.
RECURSIVE Escape(_)
Escape(s) ==
  IF s = <<>> THEN <<>>
  ELSE IF Head(s) \in {"\"", "\\"} THEN <<"\\", Head(s)>> \o Escape(Tail(s))
  ELSE <<Head(s)>> \o Escape(Tail(s))

Quoted(s) == <<"\"">> \o Escape(s) \o <<"\"">>

\* a string, a natural number, null or a boolean as JSON text
JsonText(v) ==
  IF v.t = "string" THEN Quoted(v.s)
  ELSE IF v.t = "number" THEN NatToChars(v.n \div 10)
  ELSE IF v.t = "boolean" THEN (IF v.n = 1 THEN <<"t","r","u","e">> ELSE <<"f","a","l","s","e">>)
  ELSE <<"n","u","l","l">>

\* "key": value, or nothing for a field the object lacks
Member(key, v) ==
  IF v = Undefined THEN <<>> ELSE <<Quoted(key) \o <<":"," ">> \o JsonText(v)>>

RECURSIVE Joined(_)
Joined(members) ==
  IF members = <<>> THEN <<>>
  ELSE IF Len(members) = 1 THEN Head(members)
  ELSE Head(members) \o <<","," ">> \o Joined(Tail(members))

MembersText(obj) ==
  Joined(Member(<<"c","a","t","e","g","o","r","y">>, obj.category)
           \o Member(<<"s","u","g","g","e","s","t","i","o","n">>, obj.suggestion)
           \o Member(<<"w","a","r","d","_","i","d">>, obj.ward_id)
           \o Member(<<"w","a","r","d","_","n","a","m","e">>, obj.ward_name))

\* the object as JSON text
ObjectText(obj) == <<"{">> \o MembersText(obj) \o <<"}">>

\* the same text cut off before its closing brace, which JSON.parse rejects
TruncatedText(obj) == <<"{">> \o MembersText(obj)

QuotingSuggestion == <<"S","a","y"," ","\"","h","i","\""," ","t","o"," ","M","C","D">>

\* the fields of the cut-off texts: each is there or not
SalvagedObjects ==
  {JsonObject(c, s, w, n) :
     c \in {Undefined, Str(<<"S","o","i","l">>), Str(<<"f","i","r","e">>)},
     s \in {Undefined, Str(<<"o","k">>), Str(QuotingSuggestion)},
     w \in {Undefined, Num(0), Num(Whole(12)), Num(Whole(300))},
     n \in {Undefined, Str(<<"R","o","h","i","n","i">>)}}

SalvageTexts == {TruncatedText(obj) : obj \in SalvagedObjects}

\* JSON payloads: objects (one with a category that is a number, one with
\* no member), and values that are no object
JsonPayloads ==
  {ObjectText(JsonObject(Str(<<"A","i","r">>), Str(LongSuggestion), Num(Whole(7)),
                         Str(<<"R","o","h","i","n","i">>))),
   ObjectText(JsonObject(Num(Whole(5)), Undefined, Undefined, Undefined)),
   ObjectText(JsonObject(Undefined, Str(QuotingSuggestion), Num(Whole(300)),
                         Undefined)),
   ObjectText(JsonObject(Undefined, Undefined, Undefined, Undefined)),
   <<"n","u","l","l">>, <<"[","]">>, <<"7">>, Quoted(Fence)}

\* what stands before and after a fenced payload
OpeningFences ==
  {Fence \o <<"j","s","o","n","\n">>, Fence \o <<"\n">>, Fence \o <<"J","S","O","N","\n">>,
   <<" ">> \o Fence \o <<"j","s","o","n"," ">>}
ClosingFences == {<<"\n">> \o Fence, Fence, <<"\n">> \o Fence \o <<" ","\n">>}

Fenced(opening, payload, closing) == opening \o payload \o closing

FencedTexts ==
  {Fenced(o, p, c) : o \in OpeningFences, p \in JsonPayloads,
                     c \in ClosingFences}

Texts == SalvageTexts \cup JsonPayloads \cup FencedTexts

RateBodies ==
  {RateBody(FALSE, FALSE, <<>>),
   RateBody(TRUE, FALSE, <<>>),
   RateBody(TRUE, TRUE, <<>>),
   RateBody(TRUE, TRUE, <<Undefined>>),
   RateBody(TRUE, TRUE, <<Undefined, Str(<<"3","0","s">>)>>),
   RateBody(TRUE, TRUE, <<Str(<<"1",".","5","s">>), Str(<<"7","s">>)>>),
   RateBody(TRUE, TRUE, <<Str(<<"0",".","4","s">>)>>),
   RateBody(TRUE, TRUE, <<Str(<<"0","s">>)>>),
   RateBody(TRUE, TRUE, <<Str(<<"0",".","0","s">>)>>),
   RateBody(TRUE, TRUE, <<Str(<<"a","b","c">>)>>),
   RateBody(TRUE, TRUE, <<Str(<<>>), Str(<<"7","s">>)>>),
   RateBody(TRUE, TRUE, <<Num(Whole(45))>>)}

\* statuses outside 200..299 other than 429
ErrorStatuses == {400, 500}

NoRateBody == RateBody(FALSE, FALSE, <<>>)
NoPayload  == JsonOther("none")

\* `res`, and what its body reads as
Response(status, rate, jsonOk, text, payload) ==
  [status |-> status, rate |-> rate, jsonOk |-> jsonOk, text |-> text,
   payload |-> payload]

NoResponse == Response(0, NoRateBody, FALSE, Undefined, NoPayload)

----------------------------------------------------------------------------
(* analyzeComplaint as a state machine                                     *)

VARIABLES
  apiKey,          \* GEMINI_API_KEY is set
  wards,           \* the gazetteer
  models,          \* the list the loop of line 94 runs over
  pc,              \* "idle", "loop" (line 94), "awaiting" (line 97), "done"
  fallbackWardId,  \* the argument
  idx,             \* the position of the loop in models
  lastError,       \* line 92
  res,             \* the response of the current attempt
  requests,        \* the models requested so far, in order
  inflight,        \* the requests sent and not yet answered
  attempts,        \* how each attempt ended: "rate_limit", "http_error",
                   \* "empty", an exception ("network", "body",
                   \* "type_error") or "result"
  outcome,         \* "pending", "returned", "threw"
  result,          \* the GeminiAnalysis returned
  thrown           \* the error thrown

\* ComplaintsPage: the state of the component and its handlers at an await
VARIABLES
  loading,         \* line 73
  navigated,       \* the init effect of lines 212-246 left the page
  userData,        \* line 72: the profile, or NoUser
  description,     \* line 74
  location,        \* line 75
  photo,           \* line 76: a file is chosen
  analyzing,       \* line 78
  reporting,       \* line 79
  analysis,        \* line 80: the GeminiAnalysis held, or NoAnalysis
  suggestionOpen,  \* line 81
  analyzed,        \* the description and location that the analysis held was
                   \* made from: a record kept for the properties, of which
                   \* the page has no state, and kept only in the behaviours
                   \* that begin with NoText
  toasts,          \* the title of the toast that the last step of a handler
                   \* raised, "none" when it raised none
  analyses,        \* the runs of handleAnalyze that stand at an await
  reports          \* the runs of handleReportComplaint that stand at an await

\* the complaint store of the migrations
VARIABLES
  complaints,      \* the rows of public.complaints, in the order of insertion
  lastSql,         \* the last statement on the table, and how it ended
  users,           \* public.users: score and wallet_balance of each user
  submissions      \* the rows of the table whose updates fire
                   \* update_user_score_on_verification

analyzeVars == <<apiKey, wards, models, pc, fallbackWardId, idx, lastError,
                 res, requests, inflight, attempts, outcome, result, thrown>>

pageVars == <<loading, navigated, userData, description, location, photo,
              analyzing, reporting, analysis, suggestionOpen, analyzed,
              toasts, analyses, reports>>

\* what the reward trigger reads and writes
scoreVars == <<users, submissions>>

storeVars == <<complaints, lastSql, scoreVars>>

\* what analyzeComplaint never touches
rest == <<pageVars, storeVars>>

vars == <<analyzeVars, pageVars, storeVars>>

config == <<apiKey, wards, models>>

\* line 72: useState<UserData | null>(null)
NoUser == [id |-> "none", ward_number |-> Undefined]

\* no analysis is held, so no text is what it was made from
NoText == [description |-> <<>>, location |-> <<>>]

\* the text analysed is not recorded in this behaviour
Untracked == [description |-> <<"untracked">>, location |-> <<>>]

\* the record of the text analysed, in the behaviours that keep one
Recorded(text) == IF analyzed = Untracked THEN Untracked ELSE text

\* lines 72-81: the initial state of the component
InitPage ==
  /\ analyzed \in {NoText, Untracked}
  /\ loading = TRUE
  /\ navigated = FALSE
  /\ userData = NoUser
  /\ description = <<>>
  /\ location = <<>>
  /\ photo = FALSE
  /\ analyzing = FALSE
  /\ reporting = FALSE
  /\ analysis = NoAnalysis
  /\ suggestionOpen = FALSE
  /\ toasts = "none"
  /\ analyses = <<>>
  /\ reports = <<>>

\* migration 3, lines 2-13: the table is created empty
\* an INTEGER column: NULL or a number; and an INTEGER column that a
\* statement does not name
NullInt   == [kind |-> "null", n |-> 0]
AbsentInt == [kind |-> "absent", n |-> 0]
SqlInt(k) == [kind |-> "int", n |-> k]

\* public.users as the reward trigger finds it: a user without a score, and
\* a user whose score and wallet_balance differ
InitialUsers ==
  [uid \in {"u1", "u2"} |->
     IF uid = "u1"
     THEN [score |-> NullInt, wallet_balance |-> SqlInt(0)]
     ELSE [score |-> SqlInt(3), wallet_balance |-> SqlInt(1)]]

InitStore ==
  /\ complaints = <<>>
  /\ lastSql = [op |-> "none", uid |-> "none", row |-> 0, state |-> "none",
                request |-> "none", set |-> "none"]
  /\ users = InitialUsers
  /\ submissions = <<>>

InitWith(lists, gazetteers) ==
  /\ apiKey \in BOOLEAN
  /\ wards \in gazetteers
  /\ models \in lists
  /\ pc = "idle"
  /\ fallbackWardId = Undefined
  /\ idx = 0
  /\ lastError = NoError
  /\ res = NoResponse
  /\ requests = <<>>
  /\ inflight = 0
  /\ attempts = <<>>
  /\ outcome = "pending"
  /\ result = NoAnalysis
  /\ thrown = NoError
  /\ InitPage
  /\ InitStore

\* the program as shipped: GEMINI_MODELS, and a gazetteer of all 250 wards
Init == InitWith({GEMINI_MODELS}, {FullGazetteer}) /\ analyzed = Untracked

\* any of the model lists and gazetteers
InitOpen == InitWith(ModelLists, Gazetteers) /\ analyzed = Untracked

\* the program as shipped, with the record of the text analysed
InitDraft == InitWith({GEMINI_MODELS}, {FullGazetteer}) /\ analyzed = NoText

\* lines 45-92: the call, up to the loop.  The prompt parts of lines 56-90
\* (image, location hint, description) go into the request body and decide
\* nothing below, so description, image and locationText are not drawn.
Call(fallback) ==
  /\ pc = "idle"
  /\ fallbackWardId' = fallback
  /\ IF ~apiKey
     THEN /\ pc' = "done"
          /\ outcome' = "threw"
          /\ thrown' = ConfigError
          /\ UNCHANGED <<idx, lastError>>
     ELSE /\ pc' = "loop"
          /\ idx' = 1
          /\ lastError' = NoError
          /\ UNCHANGED <<outcome, thrown>>
  /\ UNCHANGED <<rest, config, res, requests, inflight, attempts, result>>

\* lines 94-108: the next model of the list is requested
SendRequest ==
  /\ pc = "loop"
  /\ idx <= Len(models)
  /\ requests' = Append(requests, models[idx])
  /\ inflight' = inflight + 1
  /\ res' = NoResponse
  /\ pc' = "awaiting"
  /\ UNCHANGED <<rest, config, fallbackWardId, idx, lastError, attempts, outcome,
                 result, thrown>>

\* FailAttempt with a `throw` in place of `continue`: the first failure ends
\* the call.  C8 fails on it.
FailAttemptAborting(response, error, how) ==
  /\ res' = response
  /\ inflight' = inflight - 1
  /\ lastError' = error
  /\ attempts' = Append(attempts, how)
  /\ thrown' = error
  /\ outcome' = "threw"
  /\ pc' = "done"
  /\ UNCHANGED <<rest, config, fallbackWardId, idx, requests, result>>

\* FailAttempt that records only the first error (lastError = lastError ||
\* error).  C9 fails on it.
FailAttemptKeepingFirstError(response, error, how) ==
  /\ res' = response
  /\ inflight' = inflight - 1
  /\ lastError' = IF lastError = NoError THEN error ELSE lastError
  /\ attempts' = Append(attempts, how)
  /\ idx' = idx + 1
  /\ pc' = "loop"
  /\ UNCHANGED <<rest, config, fallbackWardId, requests, outcome, result,
                 thrown>>

\* an attempt ends without a result: lastError is set and the loop goes on
\* (`continue`, or the catch of lines 188-190)
FailAttempt(response, error, how) ==
  /\ res' = response
  /\ inflight' = inflight - 1
  /\ lastError' = error
  /\ attempts' = Append(attempts, how)
  /\ idx' = idx + 1
  /\ pc' = "loop"
  /\ UNCHANGED <<rest, config, fallbackWardId, requests, outcome, result,
                 thrown>>

\* line 97: fetch rejects
FetchRejects ==
  /\ pc = "awaiting"
  /\ FailAttempt(NoResponse, NetworkError, "network")

\* lines 110-121
Receive429(body) ==
  /\ pc = "awaiting"
  /\ FailAttempt(Response(429, body, FALSE, Undefined, NoPayload),
                 RateLimitErrorOf(body), "rate_limit")

\* lines 123-127
ReceiveNotOk(status) ==
  /\ pc = "awaiting"
  /\ FailAttempt(Response(status, NoRateBody, FALSE, Undefined, NoPayload),
                 ApiError(status), "http_error")

\* line 131: text?.trim()
TrimmedText(response) ==
  IF response.text.t = "string" THEN Str(Trim(response.text.s)) ELSE Undefined

\* lines 137-158: the response with its payload: the one it was drawn with,
\* or what the characters of its text are read as
ReadAs(response) ==
  IF response.text = PayloadText THEN response
  ELSE [response EXCEPT !.payload = PayloadOfText(TrimmedText(response).s)]

\* lines 129-190 on a 2xx response
ReceiveOk(response) ==
  /\ pc = "awaiting"
  /\ IF ~response.jsonOk
     THEN FailAttempt(response, BodyError, "body")
     ELSE IF ~Truthy(TrimmedText(response))
     THEN FailAttempt(response, NoResponseError, "empty")
     ELSE LET read   == ReadAs(response)
              parsed == Parsed(read.payload, fallbackWardId)
          IN  IF Throws(parsed)
              THEN FailAttempt(read, TypeError, "type_error")
              ELSE /\ res' = read
                   /\ inflight' = inflight - 1
                   /\ attempts' = Append(attempts, "result")
                   /\ result' = Analysis(parsed, fallbackWardId, wards)
                   /\ outcome' = "returned"
                   /\ pc' = "done"
                   /\ UNCHANGED <<rest, config, fallbackWardId, idx, lastError,
                                  requests, thrown>>

\* line 193: the list is exhausted
ThrowLastError ==
  /\ pc = "loop"
  /\ idx > Len(models)
  /\ thrown' = IF lastError # NoError THEN lastError ELSE GenericError
  /\ outcome' = "threw"
  /\ pc' = "done"
  /\ UNCHANGED <<rest, config, fallbackWardId, idx, lastError, res, requests,
                 inflight, attempts, result>>

\* the 2xx responses whose text is drawn as what it parses to
PayloadResponses ==
       {Response(200, NoRateBody, FALSE, Undefined, NoPayload)}
  \cup {Response(200, NoRateBody, TRUE, t, NoPayload) : t \in EmptyTexts}
  \cup {Response(200, NoRateBody, TRUE, PayloadText, p) : p \in Payloads}

\* those, and the 2xx responses whose text is read character by character
OkResponses ==
  PayloadResponses
    \cup {Response(200, NoRateBody, TRUE, Str(t), NoPayload) : t \in Texts}

Next ==
  \/ \E fallback \in Fallbacks : Call(fallback)
  \/ SendRequest
  \/ FetchRejects
  \/ \E body \in RateBodies : Receive429(body)
  \/ \E status \in ErrorStatuses : ReceiveNotOk(status)
  \/ \E response \in OkResponses : ReceiveOk(response)
  \/ ThrowLastError

Spec == Init /\ [][Next]_vars

\* any model list and gazetteer, under the responses drawn as payloads
NextOpen ==
  \/ \E fallback \in Fallbacks : Call(fallback)
  \/ SendRequest
  \/ FetchRejects
  \/ \E body \in RateBodies : Receive429(body)
  \/ \E status \in ErrorStatuses : ReceiveNotOk(status)
  \/ \E response \in PayloadResponses : ReceiveOk(response)
  \/ ThrowLastError

SpecOpen == InitOpen /\ [][NextOpen]_vars

----------------------------------------------------------------------------
(* public.complaints: its columns, constraints, policies and triggers      *)

\* SQL NULL, and a column that a statement does not name
SqlNull == "<null>"
Absent  == "<absent>"

\* jsonb values: NULL, an array, or no value given
JsonbNull     == [kind |-> "null", items |-> <<>>]
JsonbAbsent   == [kind |-> "absent", items |-> <<>>]
JsonbArray(items) == [kind |-> "array", items |-> items]

\* jsonb_build_object('status', ..., 'timestamp', ..., 'updated_by', ...);
\* the timestamp is left out
TimelineEntry(status, updated_by) ==
  [status |-> status, updated_by |-> updated_by]

\* jsonb || jsonb with an object on the right: NULL stays NULL, an array
\* gets the object as its last element
JsonbConcat(left, entry) ==
  IF left.kind = "array" THEN JsonbArray(Append(left.items, entry)) ELSE left

\* a <> b: TRUE, FALSE, or unknown (NULL) when either side is NULL
SqlNotEqual(a, b) ==
  IF a = SqlNull \/ b = SqlNull THEN SqlNull
  ELSE IF a # b THEN "true" ELSE "false"

\* a IS DISTINCT FROM b
IsDistinctFrom(a, b) == a # b

\* migration 5, line 19
ValidStatuses ==
  {"received", "reported", "working", "solved", "pending", "in_progress",
   "resolved"}

\* migration 3, line 10
DefaultStatus == "pending"

\* migration 5, line 5
DefaultTimeline == JsonbArray(<<>>)

\* public.users: the citizens and the administrators (users.role)
Citizens == {"u1", "u2"}
Admins == {"a1"}

\* an update policy with USING (true): every session passes.  C21 fails on
\* it.
IsAnyone(uid) == uid \in Citizens \cup Admins

\* migration 3, lines 45-49: the USING clause of the update policy
IsAdmin(uid) == uid \in Admins

\* the row that an INSERT proposes: the columns named, and the defaults of
\* the others
Proposed(request) ==
  [user_id |-> request.user_id,
   ward_number |-> request.ward_number,
   location_text |-> request.location_text,
   description |-> request.description,
   photo_url |-> request.photo_url,
   category |-> request.category,
   ai_suggestion |-> request.ai_suggestion,
   status |-> IF request.status = Absent THEN DefaultStatus
              ELSE request.status,
   timeline |-> IF request.timeline = JsonbAbsent THEN DefaultTimeline
                ELSE request.timeline,
   updates |-> 0]

\* handle_complaint_initial_timeline that appends its entry to the timeline
\* of the row handed in.  C20 fails on it.
handle_complaint_initial_timeline_appending(new) ==
  [new EXCEPT !.timeline =
     JsonbConcat(new.timeline, TimelineEntry(new.status, new.user_id))]

\* migration 5, lines 46-58
handle_complaint_initial_timeline(new) ==
  [new EXCEPT !.timeline =
     JsonbArray(<<TimelineEntry(new.status, new.user_id)>>)]

\* migration 5, lines 23-35
handle_complaint_status_change(old, new, uid) ==
  IF old.status = SqlNull \/ SqlNotEqual(old.status, new.status) = "true"
  THEN [new EXCEPT !.timeline =
          JsonbConcat(new.timeline, TimelineEntry(new.status, uid))]
  ELSE new

\* migration 3, lines 4-10 and migration 5, line 19: the SQLSTATE of the
\* constraint a row breaks, or "ok".  ward_number is an INTEGER column; the
\* NOT NULL columns are never drawn NULL.
ConstraintState(row) ==
  IF ~IsInteger(row.ward_number) THEN "22P02"
  ELSE IF \/ row.ward_number < Whole(MinWard)
          \/ row.ward_number > Whole(MaxWard)
          \/ row.category \notin CATEGORIES
          \/ (row.status # SqlNull /\ row.status \notin ValidStatuses)
       THEN "23514"
  ELSE "ok"

\* INSERT by the session of uid: the BEFORE INSERT trigger (migration 5,
\* lines 61-64), the constraints, the policy of migration 3, lines 19-22
InsertState(request, uid) ==
  LET row == handle_complaint_initial_timeline(Proposed(request))
  IN  IF ConstraintState(row) # "ok" THEN ConstraintState(row)
      ELSE IF uid # row.user_id THEN "42501"
      ELSE "ok"

Inserted(request) == handle_complaint_initial_timeline(Proposed(request))

\* UPDATE ... SET of one row: the new row before the triggers
Assigned(old, set) ==
  [old EXCEPT
     !.status = IF set.status = Absent THEN old.status ELSE set.status,
     !.timeline = IF set.timeline = JsonbAbsent THEN old.timeline
                  ELSE set.timeline]

\* migration 5, lines 39-43: the trigger and its WHEN clause
on_complaint_status_change(old, new, uid) ==
  IF IsDistinctFrom(old.status, new.status)
  THEN handle_complaint_status_change(old, new, uid)
  ELSE new

\* the row after an UPDATE that the policy lets through; `updates` counts
\* the updates of the row
Updated(old, set, uid) ==
  LET new == on_complaint_status_change(old, Assigned(old, set), uid)
  IN  [new EXCEPT !.updates = @ + 1]

\* a statement as lastSql keeps it: the row is the position of the row
\* inserted or updated
Insert(uid, row, state, request) ==
  [op |-> "insert", uid |-> uid, row |-> row, state |-> state,
   request |-> request, set |-> "none"]

Update(uid, row, state, set) ==
  [op |-> "update", uid |-> uid, row |-> row, state |-> state,
   request |-> "none", set |-> set]

Delete(uid, row, state) ==
  [op |-> "delete", uid |-> uid, row |-> row, state |-> state,
   request |-> "none", set |-> "none"]

\* the rows the table holds at most, and the updates its rows take at most
MaxRows == 1
MaxUpdates == 2

RECURSIVE UpdatesOf(_)
UpdatesOf(rows) ==
  IF rows = <<>> THEN 0 ELSE Head(rows).updates + UpdatesOf(Tail(rows))

\* INSERT INTO public.complaints by the session of uid
InsertComplaint(request, uid) ==
  /\ Len(complaints) < MaxRows
  /\ LET state == InsertState(request, uid)
     IN  IF state = "ok"
         THEN /\ complaints' = Append(complaints, Inserted(request))
              /\ lastSql' = Insert(uid, Len(complaints) + 1, state, request)
         ELSE /\ lastSql' = Insert(uid, 0, state, request)
              /\ UNCHANGED complaints
  /\ UNCHANGED <<analyzeVars, pageVars, scoreVars>>

\* UPDATE public.complaints SET ... WHERE id = (the id of row i) by the
\* session of uid: no row is visible to a session the policy does not let
\* through, and a row that breaks a constraint aborts the statement
UpdateComplaint(i, set, uid) ==
  /\ i \in DOMAIN complaints
  /\ UpdatesOf(complaints) < MaxUpdates
  /\ LET new   == Updated(complaints[i], set, uid)
         state == IF ~IsAdmin(uid) THEN "no rows" ELSE ConstraintState(new)
     IN  /\ lastSql' = Update(uid, i, state, set)
         /\ complaints' = IF state = "ok"
                          THEN [complaints EXCEPT ![i] = new]
                          ELSE complaints
  /\ UNCHANGED <<analyzeVars, pageVars, scoreVars>>

\* DELETE FROM public.complaints WHERE id = (the id of row i) by the session
\* of uid: row level security is enabled and no policy is FOR DELETE, so no
\* row is visible to the statement
DeleteComplaint(i, uid) ==
  /\ i \in DOMAIN complaints
  /\ lastSql' = Delete(uid, i, "no rows")
  /\ UNCHANGED <<complaints, analyzeVars, pageVars, scoreVars>>

----------------------------------------------------------------------------
(* update_user_score_on_verification and the rows it is fired for          *)

\* COALESCE(x, 0)
Coalesce(x) == IF x.kind = "int" THEN x.n ELSE 0

\* the function with NEW.status = 'verified' as its whole condition.  C24
\* fails on it.
update_user_score_on_every_verified(old, new, table) ==
  IF new.status = "verified"
  THEN [table EXCEPT
          ![new.user_id].score =
             SqlInt(Coalesce(@) + Coalesce(new.points_rewarded)),
          ![new.user_id].wallet_balance =
             SqlInt(Coalesce(@) + Coalesce(new.points_rewarded))]
  ELSE table

\* lines 9-22 of the wallet migration: public.users after the function ran
\* for an update from old to new.  A NULL comparison is not true.
update_user_score_on_verification(old, new, table) ==
  IF /\ new.status = "verified"
     /\ (old.status = SqlNull \/ SqlNotEqual(old.status, "verified") = "true")
  THEN [table EXCEPT
          ![new.user_id].score =
             SqlInt(Coalesce(@) + Coalesce(new.points_rewarded)),
          ![new.user_id].wallet_balance =
             SqlInt(Coalesce(@) + Coalesce(new.points_rewarded))]
  ELSE table

\* INSERT of a row of the table the trigger is on; the trigger is fired for
\* updates
InsertSubmission(owner, status, points) ==
  /\ submissions = <<>>
  /\ submissions' = <<[user_id |-> owner, status |-> status,
                       points_rewarded |-> points, updates |-> 0]>>
  /\ UNCHANGED <<users, complaints, lastSql, analyzeVars, pageVars>>

\* UPDATE ... SET of the row: the columns named take their values, and the
\* trigger runs with the old and the new row
UpdateSubmission(set) ==
  /\ submissions # <<>>
  /\ submissions[1].updates < MaxUpdates
  /\ LET old == submissions[1]
         new == [old EXCEPT
                   !.status = IF set.status = Absent THEN @ ELSE set.status,
                   !.points_rewarded =
                      IF set.points_rewarded = AbsentInt THEN @
                      ELSE set.points_rewarded,
                   !.updates = @ + 1]
     IN  /\ submissions' = <<new>>
         /\ users' = update_user_score_on_verification(old, new, users)
  /\ UNCHANGED <<complaints, lastSql, analyzeVars, pageVars>>

----------------------------------------------------------------------------
(* ComplaintsPage: the handlers                                            *)

\* the profiles of citizens that the init effect loads (lines 221-242)
ProfileWards == {Num(Whole(10))}
Profiles == {[id |-> "u1", ward_number |-> w] : w \in ProfileWards}

\* what the citizen types and chooses
Descriptions == {<<>>, <<" ">>, <<"a"," ">>}
Locations == {<<>>, <<" ","L">>}

\* a || b on strings
OrText(a, b) == IF a # <<>> THEN a ELSE b

\* line 129: the description sent for a complaint that is a photo only
PhotoOnlyDescription == <<"S","e","e">>

PublicUrl == Str(<<"u","r","l">>)

\* the runs of a handler that stand at an await, at most
MaxPending == 2

Remove(seq, k) == SubSeq(seq, 1, k - 1) \o SubSeq(seq, k + 1, Len(seq))

\* the component is mounted: the init effect has not navigated away
Mounted == ~navigated

\* lines 253 and 270: the form is rendered
FormShown == Mounted /\ ~loading /\ userData # NoUser

\* line 449: the popup is open; it is modal, so the form under it takes no
\* input
DialogOpen == suggestionOpen /\ analysis # NoAnalysis

\* line 85
geminiOk == apiKey

\* AnalyzeDisabled without the analyzing flag.  C16 fails on it.
AnalyzeDisabledWhileIdle ==
  \/ (analysis = NoAnalysis /\ Trim(description) = <<>> /\ ~photo)
  \/ ~geminiOk

\* line 424
AnalyzeDisabled ==
  \/ analyzing
  \/ (analysis = NoAnalysis /\ Trim(description) = <<>> /\ ~photo)
  \/ ~geminiOk

\* ReportDisabled without `reporting`: the button stays enabled while an
\* insert is awaited.  C29 fails on it.
ReportDisabledOnlyWhenBlank == Trim(description) = <<>>

\* line 492
ReportDisabled == reporting \/ Trim(description) = <<>>

\* lines 212-242: the init effect loads the profile of a citizen
LoadProfile(profile) ==
  /\ Mounted /\ loading /\ userData = NoUser
  /\ userData' = profile
  /\ loading' = FALSE
  /\ toasts' = "none"
  /\ UNCHANGED <<analyzed, navigated, description, location, photo, analyzing,
                 reporting, analysis, suggestionOpen, analyses, reports,
                 analyzeVars, storeVars>>

\* lines 215-238: no session, no profile, or no citizen: a toast, and the
\* page is left
LeavePage(title) ==
  /\ Mounted /\ loading /\ userData = NoUser
  /\ toasts' = title
  /\ navigated' = TRUE
  /\ UNCHANGED <<analyzed, loading, userData, description, location, photo, analyzing,
                 reporting, analysis, suggestionOpen, analyses, reports,
                 analyzeVars, storeVars>>

\* line 360
setDescription(text) ==
  /\ description' = text
  /\ toasts' = "none"
  /\ UNCHANGED <<analyzed, loading, navigated, userData, location, photo, analyzing,
                 reporting, analysis, suggestionOpen, analyses, reports,
                 analyzeVars, storeVars>>

\* line 344
setLocation(text) ==
  /\ location' = text
  /\ toasts' = "none"
  /\ UNCHANGED <<analyzed, loading, navigated, userData, description, photo, analyzing,
                 reporting, analysis, suggestionOpen, analyses, reports,
                 analyzeVars, storeVars>>

\* lines 87-96
handlePhotoChange(isImage) ==
  /\ IF isImage
     THEN photo' = TRUE /\ toasts' = "none"
     ELSE toasts' = "Invalid file" /\ UNCHANGED photo
  /\ UNCHANGED <<analyzed, loading, navigated, userData, description, location,
                 analyzing, reporting, analysis, suggestionOpen, analyses,
                 reports, analyzeVars, storeVars>>

\* lines 98-102
removePhoto ==
  /\ photo' = FALSE
  /\ toasts' = "none"
  /\ UNCHANGED <<analyzed, loading, navigated, userData, description, location,
                 analyzing, reporting, analysis, suggestionOpen, analyses,
                 reports, analyzeVars, storeVars>>

\* AnalyzeRun without the fifth argument of line 135, the ward of the
\* profile.  C15 fails on it.
AnalyzeRunWithoutWard(stage) ==
  [stage |-> stage,
   description |-> OrText(Trim(description), PhotoOnlyDescription),
   location |-> Trim(location),
   ward |-> Undefined]

\* a run of handleAnalyze at an await: at fileToBase64 ("reading") or at
\* analyzeComplaint ("calling"), with what its closure holds
AnalyzeRun(stage) ==
  [stage |-> stage,
   description |-> OrText(Trim(description), PhotoOnlyDescription),
   location |-> Trim(location),
   ward |-> userData.ward_number]

\* handleAnalyze without the check of geminiOk of lines 115-118.  C13 fails
\* on it.
handleAnalyzeUnconfigured ==
  /\ Len(analyses) < MaxPending
  /\ IF analysis # NoAnalysis
     THEN /\ suggestionOpen' = TRUE
          /\ toasts' = "none"
          /\ UNCHANGED <<analyzing, analyses>>
     ELSE IF Trim(description) = <<>> /\ ~photo
     THEN /\ toasts' = "Empty complaint"
          /\ UNCHANGED <<analyzing, suggestionOpen, analyses>>
     ELSE /\ analyzing' = TRUE
          /\ suggestionOpen' = FALSE
          /\ analyses' = Append(analyses,
               AnalyzeRun(IF photo THEN "reading" ELSE "calling"))
          /\ toasts' = "none"
  /\ UNCHANGED <<analyzed, loading, navigated, userData, description, location, photo,
                 reporting, analysis, reports, analyzeVars, storeVars>>

\* handleAnalyze without the return of lines 106-109: a result that is held
\* does not keep a new analysis from starting.  C30 fails on it.
handleAnalyzeAgain ==
  /\ Len(analyses) < MaxPending
  /\ IF Trim(description) = <<>> /\ ~photo
     THEN /\ toasts' = "Empty complaint"
          /\ UNCHANGED <<analyzing, suggestionOpen, analyses>>
     ELSE IF ~geminiOk
     THEN /\ toasts' = "AI not configured"
          /\ UNCHANGED <<analyzing, suggestionOpen, analyses>>
     ELSE /\ analyzing' = TRUE
          /\ suggestionOpen' = FALSE
          /\ analyses' = Append(analyses,
               AnalyzeRun(IF photo THEN "reading" ELSE "calling"))
          /\ toasts' = "none"
  /\ UNCHANGED <<analyzed, loading, navigated, userData, description,
                 location, photo, reporting, analysis, reports, analyzeVars,
                 storeVars>>

\* lines 104-130: handleAnalyze up to its first await
handleAnalyze ==
  /\ Len(analyses) < MaxPending
  /\ IF analysis # NoAnalysis
     THEN /\ suggestionOpen' = TRUE
          /\ toasts' = "none"
          /\ UNCHANGED <<analyzing, analyses>>
     ELSE IF Trim(description) = <<>> /\ ~photo
     THEN /\ toasts' = "Empty complaint"
          /\ UNCHANGED <<analyzing, suggestionOpen, analyses>>
     ELSE IF ~geminiOk
     THEN /\ toasts' = "AI not configured"
          /\ UNCHANGED <<analyzing, suggestionOpen, analyses>>
     ELSE /\ analyzing' = TRUE
          /\ suggestionOpen' = FALSE
          /\ analyses' = Append(analyses,
               AnalyzeRun(IF photo THEN "reading" ELSE "calling"))
          /\ toasts' = "none"
  /\ UNCHANGED <<analyzed, loading, navigated, userData, description, location, photo,
                 reporting, analysis, reports, analyzeVars, storeVars>>

\* lines 126-128 and 140-146: fileToBase64 settles; when it rejects, the
\* catch and the finally run
FileRead(k, ok) ==
  /\ k \in DOMAIN analyses
  /\ analyses[k].stage = "reading"
  /\ IF ok
     THEN /\ analyses' = [analyses EXCEPT ![k].stage = "calling"]
          /\ toasts' = "none"
          /\ UNCHANGED <<analyzing, analysis, analyzed>>
     ELSE /\ analyses' = Remove(analyses, k)
          /\ toasts' = "Analysis failed"
          /\ analysis' = NoAnalysis
          /\ analyzed' = Recorded(NoText)
          /\ analyzing' = FALSE
  /\ UNCHANGED <<loading, navigated, userData, description, location, photo,
                 reporting, suggestionOpen, reports, analyzeVars, storeVars>>

\* lines 130-136: a run that stands at analyzeComplaint has called it
PageCall ==
  /\ \E k \in DOMAIN analyses :
       /\ analyses[k].stage = "calling"
       /\ Call(analyses[k].ward)

\* FinishAnalyze whose catch shows the popup again and has no finally.  C23
\* fails on it.
FinishAnalyzeStayingBusy(k) ==
  /\ k \in DOMAIN analyses
  /\ analyses[k].stage = "calling"
  /\ pc = "done"
  /\ analyses[k].ward = fallbackWardId
  /\ IF outcome = "returned"
     THEN /\ analysis' = result
          /\ analyzed' = Recorded([description |-> analyses[k].description,
                                    location |-> analyses[k].location])
          /\ suggestionOpen' = TRUE
          /\ toasts' = "Analysis complete"
          /\ analyzing' = FALSE
     ELSE /\ analysis' = NoAnalysis
          /\ analyzed' = Recorded(NoText)
          /\ toasts' = "Analysis failed"
          /\ suggestionOpen' = TRUE
          /\ UNCHANGED analyzing
  /\ analyses' = Remove(analyses, k)
  /\ pc' = "idle"
  /\ fallbackWardId' = Undefined
  /\ idx' = 0
  /\ lastError' = NoError
  /\ res' = NoResponse
  /\ requests' = <<>>
  /\ inflight' = 0
  /\ attempts' = <<>>
  /\ outcome' = "pending"
  /\ result' = NoAnalysis
  /\ thrown' = NoError
  /\ UNCHANGED <<config, loading, navigated, userData, description, location,
                 photo, reporting, reports, storeVars>>

\* lines 137-146: analyzeComplaint settles for a run; the try or the catch,
\* and the finally.  The call is over, so its state goes.
FinishAnalyze(k) ==
  /\ k \in DOMAIN analyses
  /\ analyses[k].stage = "calling"
  /\ pc = "done"
  /\ analyses[k].ward = fallbackWardId
  /\ IF outcome = "returned"
     THEN /\ analysis' = result
          /\ analyzed' = Recorded([description |-> analyses[k].description,
                                    location |-> analyses[k].location])
          /\ suggestionOpen' = TRUE
          /\ toasts' = "Analysis complete"
     ELSE /\ analysis' = NoAnalysis
          /\ analyzed' = Recorded(NoText)
          /\ toasts' = "Analysis failed"
          /\ UNCHANGED suggestionOpen
  /\ analyzing' = FALSE
  /\ analyses' = Remove(analyses, k)
  /\ pc' = "idle"
  /\ fallbackWardId' = Undefined
  /\ idx' = 0
  /\ lastError' = NoError
  /\ res' = NoResponse
  /\ requests' = <<>>
  /\ inflight' = 0
  /\ attempts' = <<>>
  /\ outcome' = "pending"
  /\ result' = NoAnalysis
  /\ thrown' = NoError
  /\ UNCHANGED <<config, loading, navigated, userData, description, location,
                 photo, reporting, reports, storeVars>>

\* lines 173-182: the row handed to insert
PageRow(user, held, text, place, photoUrl) ==
  [user_id |-> user.id,
   ward_number |-> held.wardId,
   location_text |-> IF Trim(place) # <<>> THEN Str(Trim(place)) ELSE Null,
   description |-> Str(text),
   photo_url |-> photoUrl,
   category |-> held.category,
   ai_suggestion |-> held.suggestion,
   status |-> "received",
   timeline |-> JsonbAbsent]

\* a run of handleReportComplaint at an await: at the upload ("uploading")
\* or at the insert ("inserting"), with the photo its closure holds and the
\* row it makes
ReportRun(stage) ==
  [stage |-> stage,
   uid |-> userData.id,
   photo |-> photo,
   analyzed |-> analyzed,
   request |-> PageRow(userData, analysis, Trim(description), location, Null)]

\* handleReportComplaint without the return of line 150 and the check of
\* lines 151-155.  C14 fails on it.
handleReportComplaintUnguarded ==
  /\ Len(reports) < MaxPending
  /\ reporting' = TRUE
  /\ reports' = Append(reports,
       ReportRun(IF photo THEN "uploading" ELSE "inserting"))
  /\ toasts' = "none"
  /\ UNCHANGED <<analyzed, loading, navigated, userData, description, location, photo,
                 analyzing, analysis, suggestionOpen, analyses, analyzeVars,
                 storeVars>>

\* lines 149-172: handleReportComplaint up to its first await
handleReportComplaint ==
  /\ Len(reports) < MaxPending
  /\ IF userData = NoUser \/ analysis = NoAnalysis
     THEN /\ toasts' = "none"
          /\ UNCHANGED <<reporting, reports>>
     ELSE IF Trim(description) = <<>>
     THEN /\ toasts' = "Description required"
          /\ UNCHANGED <<reporting, reports>>
     ELSE /\ reporting' = TRUE
          /\ reports' = Append(reports,
               ReportRun(IF photo THEN "uploading" ELSE "inserting"))
          /\ toasts' = "none"
  /\ UNCHANGED <<analyzed, loading, navigated, userData, description, location, photo,
                 analyzing, analysis, suggestionOpen, analyses, analyzeVars,
                 storeVars>>

\* UploadDone that takes a failed upload as a failed report.  C17 fails on
\* it.
UploadDoneOrGiveUp(k, ok) ==
  /\ k \in DOMAIN reports
  /\ reports[k].stage = "uploading"
  /\ IF ok
     THEN /\ reports' = [reports EXCEPT ![k].stage = "inserting",
                                        ![k].request.photo_url = PublicUrl]
          /\ toasts' = "none"
          /\ UNCHANGED reporting
     ELSE /\ reports' = Remove(reports, k)
          /\ toasts' = "Report failed"
          /\ reporting' = FALSE
  /\ UNCHANGED <<analyzed, loading, navigated, userData, description, location, photo,
                 analyzing, analysis, suggestionOpen, analyses, analyzeVars,
                 storeVars>>

\* lines 160-171: the upload settles, with an error or without
UploadDone(k, ok) ==
  /\ k \in DOMAIN reports
  /\ reports[k].stage = "uploading"
  /\ reports' = [reports EXCEPT
                   ![k].stage = "inserting",
                   ![k].request.photo_url = IF ok THEN PublicUrl ELSE Null]
  /\ toasts' = "none"
  /\ UNCHANGED <<analyzed, loading, navigated, userData, description, location, photo,
                 analyzing, reporting, analysis, suggestionOpen, analyses,
                 analyzeVars, storeVars>>

\* InsertDone whose catch clears the form as the try does.  C28 fails on
\* it.
InsertDoneClearingOnFailure(k, reached) ==
  /\ k \in DOMAIN reports
  /\ reports[k].stage = "inserting"
  /\ Len(complaints) < MaxRows
  /\ LET request == reports[k].request
         state   == IF reached THEN InsertState(request, reports[k].uid)
                    ELSE "unreachable"
     IN  /\ IF state = "ok"
            THEN /\ complaints' = Append(complaints, Inserted(request))
                 /\ lastSql' = Insert(reports[k].uid, Len(complaints) + 1,
                                      state, request)
                 /\ toasts' = "Complaint reported"
            ELSE /\ IF reached
                    THEN lastSql' = Insert(reports[k].uid, 0, state, request)
                    ELSE UNCHANGED lastSql
                 /\ toasts' = "Report failed"
                 /\ UNCHANGED complaints
  /\ description' = <<>>
  /\ location' = <<>>
  /\ photo' = FALSE
  /\ analysis' = NoAnalysis
  /\ analyzed' = Recorded(NoText)
  /\ suggestionOpen' = FALSE
  /\ reporting' = FALSE
  /\ reports' = Remove(reports, k)
  /\ UNCHANGED <<loading, navigated, userData, analyzing, analyses,
                 analyzeVars, scoreVars>>

\* lines 173-197: the insert settles.  The store takes the row or rejects
\* it, or the request does not reach it; then the rest of the try, or the
\* catch, and the finally.
InsertDone(k, reached) ==
  /\ k \in DOMAIN reports
  /\ reports[k].stage = "inserting"
  /\ Len(complaints) < MaxRows
  /\ LET request == reports[k].request
         state   == IF reached THEN InsertState(request, reports[k].uid)
                    ELSE "unreachable"
     IN  /\ IF state = "ok"
            THEN /\ complaints' = Append(complaints, Inserted(request))
                 /\ lastSql' = Insert(reports[k].uid, Len(complaints) + 1,
                                      state, request)
                 /\ toasts' = "Complaint reported"
                 /\ description' = <<>>
                 /\ location' = <<>>
                 /\ photo' = FALSE
                 /\ analysis' = NoAnalysis
                 /\ analyzed' = Recorded(NoText)
                 /\ suggestionOpen' = FALSE
            ELSE /\ IF reached
                    THEN lastSql' = Insert(reports[k].uid, 0, state, request)
                    ELSE UNCHANGED lastSql
                 /\ toasts' = "Report failed"
                 /\ UNCHANGED <<complaints, description, location, photo,
                                analysis, analyzed, suggestionOpen>>
  /\ reporting' = FALSE
  /\ reports' = Remove(reports, k)
  /\ UNCHANGED <<loading, navigated, userData, analyzing, analyses,
                 analyzeVars, scoreVars>>

\* lines 200-202
handleCloseSuggestion ==
  /\ suggestionOpen' = FALSE
  /\ toasts' = "none"
  /\ UNCHANGED <<analyzed, loading, navigated, userData, description, location, photo,
                 analyzing, reporting, analysis, analyses, reports,
                 analyzeVars, storeVars>>

\* handleStartOver without the setAnalysis(null) of line 205.  C22 fails on
\* it.
handleStartOverKeepingAnalysis ==
  /\ description' = <<>>
  /\ location' = <<>>
  /\ photo' = FALSE
  /\ suggestionOpen' = FALSE
  /\ toasts' = "none"
  /\ UNCHANGED <<analyzed, loading, navigated, userData, analyzing, reporting, analysis,
                 analyses, reports, analyzeVars, storeVars>>

\* lines 204-210
handleStartOver ==
  /\ analysis' = NoAnalysis
  /\ analyzed' = Recorded(NoText)
  /\ description' = <<>>
  /\ location' = <<>>
  /\ photo' = FALSE
  /\ suggestionOpen' = FALSE
  /\ toasts' = "none"
  /\ UNCHANGED <<loading, navigated, userData, analyzing, reporting, analyses,
                 reports, analyzeVars, storeVars>>

----------------------------------------------------------------------------
(* The page as the citizen drives it, its handlers called in any state,    *)
(* and the store under the statements of any session                       *)

\* the titles of the toasts of lines 216, 228 and 235
LeaveToasts == {"Sign in required", "Profile error", "Access denied"}

\* what the endpoint answers to the page: an object, and an object with a
\* ward id of 3.5
PageResponses ==
  {Response(200, NoRateBody, TRUE, PayloadText,
            JsonObject(Str(Air), Str(LongSuggestion), Num(Whole(7)),
                       Str(<<"R","o","h","i","n","i">>))),
   Response(200, NoRateBody, TRUE, PayloadText,
            JsonObject(Str(Noise), Str(LongSuggestion), Num(35), Undefined))}

PageRateBodies == {RateBody(TRUE, TRUE, <<Str(<<"7","s">>)>>)}

EditDescription(text) == FormShown /\ ~DialogOpen /\ setDescription(text)
EditLocation(text)    == FormShown /\ ~DialogOpen /\ setLocation(text)
ChoosePhoto(isImage)  == FormShown /\ ~DialogOpen /\ handlePhotoChange(isImage)
ClearPhoto            == FormShown /\ ~DialogOpen /\ photo /\ removePhoto
ClickAnalyze  == FormShown /\ ~DialogOpen /\ ~AnalyzeDisabled /\ handleAnalyze
ClickReport   == FormShown /\ DialogOpen /\ ~ReportDisabled
                   /\ handleReportComplaint
ClickStartOver == FormShown /\ DialogOpen /\ handleStartOver
CloseDialog    == FormShown /\ DialogOpen /\ handleCloseSuggestion

\* the table has room: the page is followed until it holds MaxRows rows
Room == Len(complaints) < MaxRows

\* analyzeComplaint at work for the page, and the awaits of the handlers
\* settling
Background ==
  \/ Room /\ PageCall
  \/ Room /\ SendRequest
  \/ Room /\ FetchRejects
  \/ \E body \in PageRateBodies : Room /\ Receive429(body)
  \/ \E response \in PageResponses : Room /\ ReceiveOk(response)
  \/ Room /\ ThrowLastError
  \/ \E k \in 1..MaxPending, ok \in BOOLEAN : Room /\ FileRead(k, ok)
  \/ \E k \in 1..MaxPending : Room /\ FinishAnalyze(k)
  \/ \E k \in 1..MaxPending, ok \in BOOLEAN : Room /\ UploadDone(k, ok)
  \/ \E k \in 1..MaxPending, reached \in BOOLEAN : InsertDone(k, reached)

NextPage ==
  \/ \E profile \in Profiles : LoadProfile(profile)
  \/ \E title \in LeaveToasts : LeavePage(title)
  \/ \E text \in Descriptions : Room /\ EditDescription(text)
  \/ \E text \in Locations : Room /\ EditLocation(text)
  \/ \E isImage \in BOOLEAN : Room /\ ChoosePhoto(isImage)
  \/ Room /\ ClearPhoto
  \/ Room /\ ClickAnalyze
  \/ Room /\ ClickReport
  \/ Room /\ ClickStartOver
  \/ Room /\ CloseDialog
  \/ Background

\* the page in the browser of a citizen
SpecPage == Init /\ [][NextPage]_vars

\* the same page, in behaviours that record the text each analysis was
\* made from
SpecDraft == InitDraft /\ [][NextPage]_vars

\* no run of a handler stands at an await
Quiet == analyses = <<>> /\ reports = <<>>

\* analyzeComplaint called by a caller other than the page, in a build
\* without a key; the calls with a key are those of Spec
CallUnconfigured(fallback) == ~apiKey /\ Call(fallback)

\* the handlers called in any state of the mounted component, one run at a
\* time, whatever the buttons allow
NextHandlers ==
  \/ \E profile \in Profiles : LoadProfile(profile)
  \/ \E title \in LeaveToasts : LeavePage(title)
  \/ \E text \in Descriptions : Room /\ Mounted /\ setDescription(text)
  \/ \E text \in Locations : Room /\ Mounted /\ setLocation(text)
  \/ \E isImage \in BOOLEAN : Room /\ Mounted /\ handlePhotoChange(isImage)
  \/ Room /\ Mounted /\ removePhoto
  \/ Room /\ Mounted /\ Quiet /\ handleAnalyze
  \/ Room /\ Mounted /\ Quiet /\ handleReportComplaint
  \/ Room /\ Mounted /\ handleStartOver
  \/ Room /\ Mounted /\ handleCloseSuggestion
  \/ \E fallback \in ProfileWards \cup {Undefined} :
       Room /\ CallUnconfigured(fallback)
  \/ Background

SpecHandlers == Init /\ [][NextHandlers]_vars

\* the sessions that reach the store: a citizen and an administrator
Sessions == {"u1"} \cup Admins

\* the row of a page that holds a description and an analysis
PlainRequest ==
  PageRow([id |-> "u1", ward_number |-> Num(Whole(10))],
          [category |-> Air, suggestion |-> Str(LongSuggestion),
           wardId |-> Whole(7), wardName |-> Str(<<"R","o","h","i","n","i">>)],
          <<"a">>, <<>>, Null)

\* a timeline as a client may hand it in
ForgedTimeline == JsonbArray(<<TimelineEntry("solved", "a1")>>)

\* the rows handed to INSERT: the row of the page, and rows of other clients
\* with a status, a timeline, a ward, a category or an owner of their own
InsertRequests ==
       {PlainRequest, [PlainRequest EXCEPT !.status = "bogus"]}
  \cup {[PlainRequest EXCEPT !.status = s, !.timeline = ForgedTimeline] :
          s \in {Absent, SqlNull}}
  \cup {[PlainRequest EXCEPT !.ward_number = w] : w \in {35, Whole(MaxWard + 1)}}
  \cup {[PlainRequest EXCEPT !.category = <<"f","i","r","e">>],
        [PlainRequest EXCEPT !.user_id = "u2"]}

\* the SET clauses of UPDATE: a status or none, a timeline or none
UpdateSets ==
       {[status |-> s, timeline |-> t] :
          s \in {Absent, "working", SqlNull},
          t \in {JsonbAbsent, JsonbArray(<<>>)}}
  \cup {[status |-> "bogus", timeline |-> JsonbAbsent],
        [status |-> Absent, timeline |-> JsonbNull]}

NextStore ==
  \/ \E request \in InsertRequests, uid \in Sessions :
       InsertComplaint(request, uid)
  \/ \E i \in 1..MaxRows, set \in UpdateSets, uid \in Sessions :
       UpdateComplaint(i, set, uid)
  \/ \E i \in 1..MaxRows, uid \in Sessions : DeleteComplaint(i, uid)

SpecStore == Init /\ [][NextStore]_vars

\* the statuses and the points of the rows that the reward trigger sees
SubmissionStatuses == {"pending", "verified", SqlNull}
SubmissionPoints == {NullInt, SqlInt(0), SqlInt(2)}

SubmissionSets ==
  {[status |-> s, points_rewarded |-> p] :
     s \in SubmissionStatuses \cup {Absent},
     p \in SubmissionPoints \cup {AbsentInt}}

NextScore ==
  \/ \E owner \in DOMAIN InitialUsers, status \in SubmissionStatuses,
        points \in SubmissionPoints :
       InsertSubmission(owner, status, points)
  \/ \E set \in SubmissionSets : UpdateSubmission(set)

\* the rewards under the updates of any session
SpecScore == Init /\ [][NextScore]_vars

----------------------------------------------------------------------------
(* Vocabulary of the properties                                            *)

Returned == pc = "done" /\ outcome = "returned"
Threw    == pc = "done" /\ outcome = "threw"

\* the attempts that did not yield a result
Failures == {"rate_limit", "http_error", "empty", "network", "body", "type_error"}

\* the attempts whose 2xx response carried a non-empty text
TextAttempts == {"result", "type_error"}

\* the category the response gives: the property of the JSON value, or the
\* capture of the category pattern
GivenCategory ==
  IF res.payload.tier = "json" THEN Field(res.payload, "category")
  ELSE res.payload.category

\* the suggestion the response gives: the property of the JSON value, or the
\* capture of the suggestion pattern with its escapes resolved
GivenSuggestion ==
  IF res.payload.tier = "json" THEN Field(res.payload, "suggestion")
  ELSE IF res.payload.suggestion.t = "string"
       THEN Str(Unescape(res.payload.suggestion.s))
       ELSE Undefined

\* the ward_id the response gives, when it is an integer: the property of
\* the JSON value, or the digits the ward_id pattern captured
GivenWardIsInteger ==
  IF res.payload.tier = "json"
  THEN Field(res.payload, "ward_id").t = "number"
       /\ IsInteger(Field(res.payload, "ward_id").n)
  ELSE res.payload.ward_id.t = "string"

GivenWardInteger ==
  IF res.payload.tier = "json" THEN Field(res.payload, "ward_id").n
  ELSE Whole(DigitsValue(res.payload.ward_id.s))

\* the response gives no ward_id, or one that is no number
GivenWardIsNonNumeric ==
  IF res.payload.tier = "json"
  THEN \/ Field(res.payload, "ward_id").t \in {"undefined", "null"}
       \/ /\ Field(res.payload, "ward_id").t = "string"
          /\ ToNumber(Field(res.payload, "ward_id")).t = "nan"
  ELSE res.payload.ward_id.t = "undefined"

\* a is b up to the case of its letters, b in lower case
SameIgnoringCase(a, b) ==
  /\ Len(a) = Len(b)
  /\ \A i \in DOMAIN a :
       \/ a[i] = b[i]
       \/ \E k \in DOMAIN UpperChars : UpperChars[k] = a[i] /\ LowerChars[k] = b[i]

SixCategories ==
  {<<"a","i","r">>, <<"w","a","t","e","r">>, <<"n","o","i","s","e">>,
   <<"t","r","a","n","s","p","o","r","t">>, <<"s","o","i","l">>,
   <<"l","a","n","d">>}

\* x clamped to 1..250
Clamped(x) ==
  IF x < Whole(1) THEN Whole(1) ELSE IF x > Whole(250) THEN Whole(250) ELSE x

----------------------------------------------------------------------------
(* C1: if an attempt received a 2xx response with a non-empty text, the    *)
(* call returns an AnalysisResult and does not throw, whatever the text    *)
(* is.  The code throws on the JSON literal null and on a category that is *)
(* a number or a boolean.                                                  *)
C1_TextAlwaysYieldsResult ==
  (pc = "done" /\ \E i \in DOMAIN attempts : attempts[i] \in TextAttempts)
    => outcome = "returned"

(* C2: every result returned has a wardId that is an integer in 1..250.    *)
(* The code returns a fractional ward_id as it is when no fallback ward is *)
(* given.                                                                  *)
C2_WardIdIntegerInRange ==
  Returned =>
    /\ IsInteger(result.wardId)
    /\ result.wardId >= Whole(1)
    /\ result.wardId <= Whole(250)

(* C3: in both parse tiers, a category that is one of the six names up to  *)
(* case is returned in lower case, and any other or absent category is     *)
(* returned as land.                                                       *)
C3_CategoryLowerCasedOrLand ==
  Returned =>
    IF /\ GivenCategory.t = "string"
       /\ \E name \in SixCategories : SameIgnoringCase(GivenCategory.s, name)
    THEN SameIgnoringCase(GivenCategory.s, result.category)
         /\ result.category \in SixCategories
    ELSE result.category = <<"l","a","n","d">>

C3_Witness ==
  /\ Returned
  /\ res.payload.tier = "regex"
  /\ GivenCategory = Str(<<"S","o","i","l">>)
  /\ result.category = <<"s","o","i","l">>

(* C4: an integer ward_id is returned clamped to 1..250 whether or not a   *)
(* fallback ward was given; any other ward_id yields the fallback ward,    *)
(* or 1 without one.  The code treats ward_id 0 as absent.                 *)
C4_IntegerWardIdClamped ==
  Returned =>
    /\ GivenWardIsInteger => result.wardId = Clamped(GivenWardInteger)
    /\ GivenWardIsNonNumeric =>
         result.wardId =
           IF fallbackWardId = Undefined THEN Whole(1) ELSE fallbackWardId.n

(* C5: no result is returned whose suggestion is shorter than 10           *)
(* characters.  The code has no such floor and returns a short suggestion. *)
C5_SuggestionAtLeastTenChars ==
  Returned => result.suggestion.t = "string" /\ Len(result.suggestion.s) >= 10

(* C6: the suggestion returned is the given suggestion trimmed, and the    *)
(* generic acknowledgement when that is empty or missing.  The code does   *)
(* not trim: it returns the suggestion with its surrounding white space,   *)
(* and a blank suggestion as it is.                                        *)
C6_SuggestionTrimmedOrGeneric ==
  Returned =>
    result.suggestion =
      IF GivenSuggestion.t = "string" /\ Trim(GivenSuggestion.s) # <<>>
      THEN Str(Trim(GivenSuggestion.s))
      ELSE Str(GenericSuggestion)

(* C7: when the wardId returned is the id of a gazetteer entry, the        *)
(* wardName returned is that entry's canonical name, whatever ward_name    *)
(* the response gave, also when the id was replaced by the fallback ward.  *)
C7_CanonicalWardName ==
  (Returned /\ IsInteger(result.wardId) /\ (result.wardId \div 10) \in wards)
    => result.wardName = Str(CanonicalName(result.wardId \div 10))

\* the clamped id has no entry, the fallback ward replaced it, and the
\* response had given a name of its own
C7_Witness ==
  /\ Returned
  /\ res.payload.tier = "json"
  /\ Field(res.payload, "ward_id") = Num(Whole(7))
  /\ Field(res.payload, "ward_name") = Str(<<"R","o","h","i","n","i">>)
  /\ 7 \notin wards
  /\ result.wardId = Whole(10)
  /\ 10 \in wards
  /\ result.wardName = Str(CanonicalName(10))

(* C8: the models are requested in list order, at most once each and never *)
(* two at a time; a model after the first is requested only after the      *)
(* attempt before it failed, no failure ends the call while a model is     *)
(* left, and nothing is requested after the attempt that yields a result.  *)
C8_SequentialInOrder ==
  /\ inflight \in {0, 1}
  /\ Len(requests) <= Len(models)
  /\ requests = SubSeq(models, 1, Len(requests))
  /\ Len(attempts) = Len(requests) - inflight
  /\ \A k \in 2..Len(requests) : attempts[k - 1] \in Failures
  /\ \A i \in DOMAIN attempts :
       attempts[i] = "result" => (i = Len(requests) /\ Returned)
  /\ (Threw /\ apiKey) => Len(requests) = Len(models)

C8_Witness ==
  /\ Returned
  /\ Len(requests) = 2
  /\ attempts = <<"rate_limit", "result">>

(* C9: when every attempt fails the call throws the error of the last      *)
(* failing attempt, the generic error only when none was recorded, and     *)
(* returns no result.                                                      *)
C9_ThrowsLastError ==
  (pc = "done" /\ apiKey /\ \A i \in DOMAIN attempts : attempts[i] \in Failures)
    => /\ outcome = "threw"
       /\ Len(attempts) = Len(models)
       /\ IF attempts = <<>> THEN thrown = GenericError
          ELSE LET last == attempts[Len(attempts)]
               IN  /\ thrown.kind # "generic"
                   /\ last = "rate_limit" => thrown.kind = "rate_limit"
                   /\ last = "http_error" => thrown = [kind |-> "api_error", n |-> res.status]
                   /\ last = "empty" => thrown.kind = "no_response"
                   /\ last = "network" => thrown.kind = "network"
                   /\ last = "body" => thrown.kind = "body"
                   /\ last = "type_error" => thrown.kind = "type_error"

C9_Witness ==
  /\ Threw
  /\ attempts = <<"rate_limit", "http_error">>
  /\ thrown = [kind |-> "api_error", n |-> 500]

\* the seconds the error of a 429 is to name, by the retry delay its body
\* carries: N for "Ns" rounded up, 60 without a usable delay
C10_ExpectedSeconds(body) ==
  LET d == body.delays
  IN  CASE ~body.parses \/ ~body.isArray -> 60
        [] d = <<>> \/ d = <<Undefined>> -> 60
        [] d = <<Undefined, Str(<<"3","0","s">>)>> -> 30
        [] d = <<Str(<<"1",".","5","s">>), Str(<<"7","s">>)>> -> 2
        [] d = <<Str(<<"0",".","4","s">>)>> -> 1
        [] d = <<Str(<<"0","s">>)>> -> 60
        [] d = <<Str(<<"0",".","0","s">>)>> -> 60
        [] d = <<Str(<<"a","b","c">>)>> -> 60
        [] d = <<Str(<<>>), Str(<<"7","s">>)>> -> 7
        [] d = <<Num(Whole(45))>> -> 45

(* C10: when an attempt received a 429 and no model succeeded, the error   *)
(* thrown names the retry delay of the 429 body in seconds, rounded up,    *)
(* and 60 seconds when the body has no delay, cannot be parsed or gives a  *)
(* delay of 0.                                                             *)
C10_RateLimitWait ==
  (Threw /\ \E i \in DOMAIN attempts : attempts[i] = "rate_limit")
    => thrown = [kind |-> "rate_limit", n |-> C10_ExpectedSeconds(res.rate)]

C10_Witness ==
  /\ Threw
  /\ res.status = 429
  /\ res.rate.delays = <<Str(<<"1",".","5","s">>), Str(<<"7","s">>)>>
  /\ thrown = [kind |-> "rate_limit", n |-> 2]

----------------------------------------------------------------------------
(* The response text, character by character                               *)

\* how the last attempt ended
LastAttempt == IF attempts = <<>> THEN "none" ELSE attempts[Len(attempts)]

NoFields == JsonObject(Undefined, Undefined, Undefined, Undefined)

\* C11: when JSON.parse rejects the text, each of category, suggestion,
\* ward_id and ward_name that the text holds is recovered with its value
\* (escaped quotes resolved), each one it lacks takes its default (land, the
\* generic suggestion, fallbackWardId or else 1, the empty name), whatever
\* the other fields are; the call returns a result, and for a text that
\* holds none of them, without a fallback ward, that result has category
\* land and ward id 1.
C11_SalvageRecoversOrDefaults ==
  \A obj \in SalvagedObjects :
    res.text = Str(TruncatedText(obj)) =>
      LET parsed == Parsed(res.payload, fallbackWardId)
      IN  /\ res.payload.tier = "regex"
          /\ parsed.category =
               IF obj.category = Undefined THEN Str(Land) ELSE obj.category
          /\ parsed.suggestion =
               IF obj.suggestion = Undefined THEN Str(GenericSuggestion)
               ELSE obj.suggestion
          /\ parsed.ward_id =
               IF obj.ward_id # Undefined THEN obj.ward_id
               ELSE IF fallbackWardId # Undefined THEN fallbackWardId
               ELSE Num(Whole(1))
          /\ parsed.ward_name =
               IF obj.ward_name = Undefined THEN Str(<<>>) ELSE obj.ward_name
          /\ Returned /\ LastAttempt = "result"
          /\ (obj = NoFields /\ fallbackWardId = Undefined) =>
               result.category = Land /\ result.wardId = Whole(1)

\* a cut-off text with a category, a suggestion that quotes and a ward id,
\* and no ward name, was answered from its three fields
C11_Witness ==
  /\ Returned
  /\ res.text = Str(TruncatedText(JsonObject(Str(<<"S","o","i","l">>),
                      Str(QuotingSuggestion), Num(Whole(12)), Undefined)))
  /\ result.category = Soil
  /\ result.suggestion = Str(QuotingSuggestion)
  /\ result.wardId = Whole(12)

\* C12: a JSON payload between an opening fence (three grave accents, with
\* or without "json") and a closing fence, with optional white space around
\* them, ends as the payload alone does: the same failure, or the same
\* AnalysisResult; and a payload that comes without fences is parsed as it
\* stands.
C12_FencedPayloadAsUnwrapped ==
  \A p \in JsonPayloads :
    /\ res.text = Str(p) =>
         /\ StripFences(p) = p
         /\ res.payload = JsonParse(p)
         /\ res.payload.tier = "json"
    /\ \A o \in OpeningFences, c \in ClosingFences :
         res.text = Str(Fenced(o, p, c)) =>
           LET parsed == Parsed(PayloadOfText(p), fallbackWardId)
           IN  IF Throws(parsed) THEN LastAttempt = "type_error"
               ELSE /\ Returned
                    /\ result = Analysis(parsed, fallbackWardId, wards)

\* a payload fenced with an upper-case JSON and white space after the
\* closing fence was answered from its JSON value
C12_Witness ==
  /\ Returned
  /\ res.text =
       Str(Fenced(Fence \o <<"J","S","O","N","\n">>,
                  ObjectText(JsonObject(Str(<<"A","i","r">>), Str(LongSuggestion),
                                        Num(Whole(7)), Str(<<"R","o","h","i","n","i">>))),
                  <<"\n">> \o Fence \o <<" ","\n">>))
  /\ res.payload.tier = "json"
  /\ result.category = Air
  /\ result.wardId = Whole(7)

----------------------------------------------------------------------------
(* C13: without a key nothing is requested and nothing is analyzed         *)

\* C13: when the API key is not configured, a call of analyzeComplaint ends
\* by throwing the configuration error and no request is ever sent; and a
\* run of handleAnalyze starts no call of analyzeComplaint and leaves the
\* analyzing flag and the held analysis as they are.
C13_NoKeyNoRequest ==
  /\ [](~apiKey =>
          /\ requests = <<>> /\ inflight = 0 /\ attempts = <<>>
          /\ pc \in {"idle", "done"}
          /\ (pc = "done" => Threw /\ thrown = ConfigError)
          /\ analyses = <<>> /\ ~analyzing /\ analysis = NoAnalysis)
  /\ [][(~apiKey /\ handleAnalyze) =>
          UNCHANGED <<analyzing, analysis, analyses, analyzeVars>>]_vars

\* analyzeComplaint has thrown the configuration error, and handleAnalyze
\* has refused a complaint that has a description
C13_Witness ==
  /\ ~apiKey
  /\ Threw /\ thrown = ConfigError
  /\ toasts = "AI not configured"
  /\ Trim(description) # <<>>

----------------------------------------------------------------------------
(* C14: a row is inserted by the Report action alone                       *)

\* C14: a run of handleReportComplaint gets to its awaits only with a
\* profile loaded, an analysis held and a description that is not blank;
\* a row enters the table only as the insert of such a run settling, and
\* it is the row of that run; handleAnalyze, the end of an analysis,
\* closing or reopening the popup and starting over insert nothing.
C14_InsertOnlyByReport ==
  /\ [][Len(reports') > Len(reports) =>
          /\ userData # NoUser
          /\ analysis # NoAnalysis
          /\ Trim(description) # <<>>
          /\ handleReportComplaint]_vars
  /\ [](\A k \in DOMAIN reports :
          /\ reports[k].uid \in {p.id : p \in Profiles}
          /\ reports[k].request.user_id = reports[k].uid
          /\ reports[k].request.description.s # <<>>
          /\ Trim(reports[k].request.description.s)
               = reports[k].request.description.s)
  /\ [][complaints' # complaints =>
          \E k \in DOMAIN reports :
            /\ reports[k].stage = "inserting"
            /\ InsertDone(k, TRUE)
            /\ complaints' = Append(complaints, Inserted(reports[k].request))]_vars
  /\ [][(\/ handleAnalyze
         \/ \E k \in DOMAIN analyses : FinishAnalyze(k)
         \/ \E k \in DOMAIN analyses, ok \in BOOLEAN : FileRead(k, ok)
         \/ handleCloseSuggestion
         \/ handleStartOver) => UNCHANGED complaints]_vars

\* a row has been inserted, and the page says so
C14_Witness ==
  /\ complaints # <<>>
  /\ toasts = "Complaint reported"
  /\ lastSql.op = "insert" /\ lastSql.state = "ok"

----------------------------------------------------------------------------
(* C15: the rows of the page pass the constraints of the table             *)

\* C15: the row of every run of handleReportComplaint has a ward_number
\* that is an integer in 1..250, one of the six categories and the status
\* 'received', which the table accepts; so no insert of the page ends with
\* the SQLSTATE of a constraint.
C15_RowsSatisfyConstraints ==
  /\ \A k \in DOMAIN reports :
       LET row == reports[k].request
       IN  /\ IsInteger(row.ward_number)
           /\ row.ward_number >= Whole(MinWard)
           /\ row.ward_number <= Whole(MaxWard)
           /\ row.category \in SixCategories
           /\ row.status = "received"
           /\ row.status \in ValidStatuses
           /\ InsertState(row, reports[k].uid) = "ok"
  /\ lastSql.op = "insert" => lastSql.state = "ok"

\* a row is in the table whose analysis came with a ward_id of 3.5: its
\* ward_number is the ward of the profile
C15_Witness ==
  /\ complaints # <<>>
  /\ lastSql.op = "insert" /\ lastSql.state = "ok"
  /\ complaints[1].category = Noise
  /\ \E p \in Profiles : Num(complaints[1].ward_number) = p.ward_number

----------------------------------------------------------------------------
(* C16: one analysis at a time                                             *)

\* C16: on the page at most one run of handleAnalyze stands at an await and
\* at most one request is in flight; the analyzing flag is set exactly
\* while that run stands there, so while it is set the Analyze button
\* starts no other call, and the step that ends the run, with a result or
\* with an error, clears it.
C16_OneAnalysisOutstanding ==
  /\ [](/\ Len(analyses) <= 1
        /\ inflight <= 1
        /\ analyzing <=> analyses # <<>>
        /\ pc # "idle" => analyses # <<>>)
  /\ [][(\/ \E k \in DOMAIN analyses : FinishAnalyze(k)
         \/ \E k \in DOMAIN analyses : FileRead(k, FALSE))
          => analyzing /\ ~analyzing']_vars

\* an analysis has failed and the flag is cleared
C16_Witness ==
  /\ toasts = "Analysis failed"
  /\ attempts = <<>> /\ pc = "idle"
  /\ ~analyzing
  /\ ~AnalyzeDisabled

----------------------------------------------------------------------------
(* C17: a failed upload does not stop the report                           *)

\* C17: when the upload of a run of handleReportComplaint settles, with an
\* error or without, the run goes on to the insert with the row it had,
\* only photo_url set: to the public URL after an upload without error, to
\* null after a failed one; nothing is inserted or reported as failed by
\* that step, and the row of a run whose upload failed is the row of a
\* run without photo.
C17_UploadFailureTolerated ==
  /\ [][\A k \in DOMAIN reports :
          (reports[k].stage = "uploading" /\ reports' # reports) =>
            /\ DOMAIN reports' = DOMAIN reports
            /\ reports'[k].stage = "inserting"
            /\ reports'[k].request \in
                 {[reports[k].request EXCEPT !.photo_url = url] :
                    url \in {Null, PublicUrl}}
            /\ toasts' # "Report failed"
            /\ UNCHANGED <<complaints, reporting, lastSql>>]_vars
  /\ [](\A k \in DOMAIN reports :
          /\ reports[k].stage = "uploading" =>
               reports[k].photo /\ reports[k].request.photo_url = Null
          /\ reports[k].request.timeline = JsonbAbsent
          /\ reports[k].request.photo_url = PublicUrl => reports[k].photo)
  /\ [][\A k \in DOMAIN reports :
          (UploadDone(k, FALSE) /\ k \in DOMAIN reports') =>
             reports'[k].request = [reports[k].request EXCEPT !.photo_url = Null]]_vars

\* the upload of a run with a photo has failed and the run stands at the
\* insert, its row without a photo
C17_Witness ==
  \E k \in DOMAIN reports :
    /\ reports[k].photo
    /\ reports[k].stage = "inserting"
    /\ reports[k].request.photo_url = Null
    /\ reporting

----------------------------------------------------------------------------
(* C18: one timeline entry for each change of status                       *)

\* the row that the last statement, an UPDATE that went through without
\* assigning the timeline, found with a timeline that is an array
StatusUpdateOf(before, after, sql) ==
  /\ sql.op = "update" /\ sql.state = "ok"
  /\ after # before
  /\ sql.set.timeline = JsonbAbsent
  /\ before[sql.row].timeline.kind = "array"

\* C18: an update that changes the status of a complaint, a change to or
\* from NULL included, appends to its timeline exactly one entry, with the
\* new status and the identity of the session; an update that leaves the
\* status as it was appends none.
C18_StatusChangeAppendsOne ==
  [][StatusUpdateOf(complaints, complaints', lastSql') =>
       LET old == complaints[lastSql'.row]
           new == complaints'[lastSql'.row]
       IN  IF old.status # new.status
           THEN new.timeline =
                  JsonbArray(Append(old.timeline.items,
                                    TimelineEntry(new.status, lastSql'.uid)))
           ELSE new.timeline = old.timeline]_vars

----------------------------------------------------------------------------
(* C19: the timeline only grows                                            *)

\* the jsonb value a is an array and b is an array that begins with it
IsPrefixOf(a, b) ==
  /\ a.kind = "array" /\ b.kind = "array"
  /\ Len(a.items) <= Len(b.items)
  /\ SubSeq(b.items, 1, Len(a.items)) = a.items

\* C19: whatever statement the policies let through, the timeline that a
\* complaint had before it is a prefix of the timeline it has after it.
C19_TimelineAppendOnly ==
  [][\A i \in DOMAIN complaints :
       IsPrefixOf(complaints[i].timeline, complaints'[i].timeline)]_vars

----------------------------------------------------------------------------
(* C20: the first entry of the timeline is the store's                     *)

\* C20: right after an INSERT that went through, the timeline of the new
\* row is an array of exactly one entry, with the status of the row as
\* inserted (the default when the client named none) and its owner,
\* whatever timeline the client handed in; and the row that the page hands
\* to insert names no timeline.
C20_InitialTimelineIsStores ==
  /\ (lastSql.op = "insert" /\ lastSql.state = "ok") =>
       LET row == complaints[lastSql.row]
       IN  /\ lastSql.row = Len(complaints)
           /\ row.status = IF lastSql.request.status = Absent
                           THEN DefaultStatus ELSE lastSql.request.status
           /\ row.user_id = lastSql.request.user_id
           /\ row.timeline =
                JsonbArray(<<TimelineEntry(row.status, row.user_id)>>)
  /\ \A profile \in Profiles, text \in Descriptions, place \in Locations,
        url \in {Null, PublicUrl} :
       PageRow(profile, NoAnalysis, text, place, url).timeline = JsonbAbsent

\* a row was inserted that came with a timeline of the client's making
C20_Witness ==
  /\ lastSql.op = "insert" /\ lastSql.state = "ok"
  /\ lastSql.request.timeline = ForgedTimeline
  /\ complaints[lastSql.row].timeline # ForgedTimeline

----------------------------------------------------------------------------
(* C21: only administrators change a complaint                             *)

\* C21: a statement of a session that is not an administrator's leaves
\* every row of the table as it is; the only row it can add is one whose
\* user_id is the session's own identity.
C21_OnlyAdminsChangeRows ==
  [][lastSql'.uid \notin Admins =>
       /\ Len(complaints') >= Len(complaints)
       /\ \A i \in DOMAIN complaints : complaints'[i] = complaints[i]
       /\ \A i \in DOMAIN complaints' \ DOMAIN complaints :
            complaints'[i].user_id = lastSql'.uid]_vars

\* a citizen has tried to give a row a new status, and the row has the
\* status it had
C21_Witness ==
  /\ complaints # <<>>
  /\ lastSql.op = "update"
  /\ lastSql.uid \in Citizens
  /\ lastSql.set.status = "working"
  /\ lastSql.state = "no rows"
  /\ complaints[lastSql.row].status # "working"

----------------------------------------------------------------------------
(* C22: starting over discards the analysis                                *)

----------------------------------------------------------------------------
(* C23: a failed analysis leaves an error message and nothing else         *)

\* an analysis fails: analyzeComplaint threw, the photo could not be read,
\* or handleAnalyze found no key for a complaint it would have analyzed
AnalysisFails ==
  \/ \E k \in DOMAIN analyses : outcome = "threw" /\ FinishAnalyze(k)
  \/ \E k \in DOMAIN analyses : FileRead(k, FALSE)
  \/ /\ ~geminiOk /\ analysis = NoAnalysis
     /\ (Trim(description) # <<>> \/ photo)
     /\ handleAnalyze

\* C23: the step in which an analysis fails raises one error toast and
\* leaves no analysis held, the popup not shown and the analyzing flag
\* false; the description, the location and the photo are as before, and
\* nothing is reported.  An analysis comes to be held only as the whole
\* result of a call that returned.
C23_FailureSurfacedOnce ==
  /\ [][AnalysisFails =>
          /\ toasts' \in {"Analysis failed", "AI not configured"}
          /\ analysis' = NoAnalysis
          /\ ~DialogOpen'
          /\ ~analyzing'
          /\ UNCHANGED <<description, location, photo, complaints, reports,
                         lastSql>>]_vars
  /\ [][(analysis' # analysis /\ analysis' # NoAnalysis) =>
          /\ outcome = "returned"
          /\ analysis' = result
          /\ analysis'.category \in SixCategories
          /\ toasts' = "Analysis complete"]_vars

\* every model has failed for a complaint with a description: the error
\* is shown and the draft is there
C23_Witness ==
  /\ toasts = "Analysis failed"
  /\ Trim(description) # <<>>
  /\ analysis = NoAnalysis /\ ~analyzing /\ ~DialogOpen
  /\ analyses = <<>> /\ pc = "idle"
  /\ apiKey

----------------------------------------------------------------------------
(* C24: points are credited once, on the change to 'verified'              *)

\* C24: an update whose new status is 'verified' and whose old status is
\* another one or NULL adds the points_rewarded of the new row, NULL as 0,
\* to the score and to the wallet_balance of its owner, NULL as 0 too;
\* every other update, one from 'verified' to 'verified' included, leaves
\* both as they were; no other user is touched.
C24_CreditedOncePerVerification ==
  [][submissions # <<>> /\ submissions' # submissions =>
       LET old   == submissions[1]
           new   == submissions'[1]
           owner == new.user_id
           into  == new.status = "verified" /\ old.status # "verified"
           added == Coalesce(new.points_rewarded)
       IN  /\ \A uid \in DOMAIN users \ {owner} : users'[uid] = users[uid]
           /\ IF into
              THEN /\ users'[owner].score =
                        SqlInt(Coalesce(users[owner].score) + added)
                   /\ users'[owner].wallet_balance =
                        SqlInt(Coalesce(users[owner].wallet_balance) + added)
              ELSE users'[owner] = users[owner]]_vars

\* a row that was verified with two points has been updated again, still
\* verified: its owner, who had no score, has two points and no more
C24_Witness ==
  /\ submissions # <<>>
  /\ submissions[1].status = "verified"
  /\ submissions[1].points_rewarded = SqlInt(2)
  /\ submissions[1].updates = 2
  /\ submissions[1].user_id = "u1"
  /\ users["u1"].score = SqlInt(2)
  /\ users["u1"].wallet_balance = SqlInt(2)

----------------------------------------------------------------------------
(* C25: a row carries the analysis of its own description and location     *)

\* the location a row stores, as text: NULL is the empty one (line 176)
RowLocation(row) ==
  IF row.location_text = Null THEN <<>> ELSE row.location_text.s

\* a report whose row holds the text its analysis was made from; a complaint
\* analysed as a photo alone has no text of its own to compare
FromOwnText(run) ==
  /\ run.analyzed.description \in
       {run.request.description.s, PhotoOnlyDescription}
  /\ run.analyzed.location = RowLocation(run.request)

\* C25: every row the page inserts carries the category, the ward and the
\* suggestion of an analysis of the description and the location stored in
\* that row, whatever was edited while the analysis ran or after its result
\* was held.
C25_RowFromAnalysedText ==
  [][\A k \in DOMAIN reports :
       /\ reports[k].stage = "inserting"
       /\ reports' = Remove(reports, k)
       /\ Len(complaints') = Len(complaints) + 1
       => FromOwnText(reports[k])]_vars

----------------------------------------------------------------------------
(* C26: a report that completes clears only the draft it reported          *)

\* the draft was started over since Report was clicked: the result that
\* Report needs (line 150) is no longer held, or a new analysis is running
StartedOver == analysis = NoAnalysis \/ analyzing

\* C26: when an insert succeeds after the user has started over, the
\* description, the location, the photo and the analysis of the newer draft
\* are left as they are.
C26_NewerDraftKept ==
  [][\A k \in DOMAIN reports :
       /\ reports[k].stage = "inserting"
       /\ reports' = Remove(reports, k)
       /\ Len(complaints') = Len(complaints) + 1
       /\ StartedOver
       => /\ description' = description
          /\ location' = location
          /\ photo' = photo
          /\ analysis' = analysis]_vars

----------------------------------------------------------------------------
(* C27: the timeline ends with the current status and never repeats one    *)

\* the last entry of the timeline of a row carries the status of the row,
\* and no entry carries the status of the entry before it
TimelineFollowsStatus(row) ==
  /\ row.timeline.kind = "array"
  /\ row.timeline.items # <<>>
  /\ row.timeline.items[Len(row.timeline.items)].status = row.status
  /\ \A i \in 1 .. Len(row.timeline.items) - 1 :
       row.timeline.items[i].status # row.timeline.items[i + 1].status

\* C27: a row is inserted with a timeline that ends with its status, and an
\* update that does not assign the timeline column keeps, for a row whose
\* timeline ended with its status and repeated none, both of these true.
C27_TimelineFollowsStatus ==
  [][/\ lastSql'.op = "insert" /\ lastSql'.state = "ok"
        /\ Len(complaints') = Len(complaints) + 1
        => TimelineFollowsStatus(complaints'[Len(complaints')])
     /\ StatusUpdateOf(complaints, complaints', lastSql')
        /\ TimelineFollowsStatus(complaints[lastSql'.row])
        => TimelineFollowsStatus(complaints'[lastSql'.row])]_vars

----------------------------------------------------------------------------
(* C28: a report changes the form only when it succeeds                    *)

\* C28: the step that ends a run of handleReportComplaint empties the
\* description, the location, the photo and the analysis and closes the
\* popup when it has inserted the row, leaves all five as they were when it
\* has not, and sets reporting to false either way; the steps of a run
\* before its end leave the five as they were.
C28_FormChangedOnlyOnSuccess ==
  [][reports' # reports =>
       IF Len(reports') < Len(reports)
       THEN /\ ~reporting'
            /\ IF Len(complaints') = Len(complaints) + 1
               THEN /\ description' = <<>>
                    /\ location' = <<>>
                    /\ ~photo'
                    /\ analysis' = NoAnalysis
                    /\ ~suggestionOpen'
               ELSE /\ complaints' = complaints
                    /\ UNCHANGED <<description, location, photo, analysis,
                                   suggestionOpen>>
       ELSE UNCHANGED <<description, location, photo, analysis,
                        suggestionOpen>>]_vars

\* a report has just failed: the toast says so, nothing was inserted, and
\* the description, the location, the photo, the analysis and the open
\* popup are still there, with reporting false
C28_Witness ==
  /\ toasts = "Report failed"
  /\ complaints = <<>>
  /\ ~reporting
  /\ Trim(description) # <<>>
  /\ Trim(location) # <<>>
  /\ photo
  /\ analysis # NoAnalysis
  /\ suggestionOpen

----------------------------------------------------------------------------
(* C29: one analysis result backs at most one inserted complaint           *)

\* C29: at most one run of handleReportComplaint is in flight; a run starts
\* only when none is in flight, with the analysis that is held; and the step
\* that inserts the row of a run leaves no analysis held, so that the result
\* it carried cannot be reported again.
C29_OneRowPerAnalysis ==
  /\ [](Len(reports) <= 1)
  /\ [][/\ Len(reports') > Len(reports)
           => /\ reports = <<>> /\ ~reporting
              /\ analysis # NoAnalysis
              /\ reports'[1].request.category = analysis.category
              /\ reports'[1].request.ai_suggestion = analysis.suggestion
        /\ Len(complaints') > Len(complaints)
           => /\ Len(complaints') = Len(complaints) + 1
              /\ analysis' = NoAnalysis
              /\ reports' = <<>>]_vars

\* a report is in flight with the result it carries still held and shown:
\* the Report button is disabled although the description is not blank
C29_Witness ==
  /\ Len(reports) = 1
  /\ reports[1].stage = "inserting"
  /\ reporting
  /\ analysis # NoAnalysis
  /\ reports[1].request.category = analysis.category
  /\ DialogOpen
  /\ Trim(description) # <<>>
  /\ ReportDisabled

----------------------------------------------------------------------------
(* C30: no result is held while analyzing; the popup needs a result        *)

\* C30: in every state, while analyzing is true no analysis is held, and
\* the suggestion popup is shown only when an analysis is held.
C30_AnalyzingHoldsNoResult ==
  /\ analyzing => analysis = NoAnalysis
  /\ DialogOpen => analysis # NoAnalysis

\* a new analysis runs, with no result held and the popup away, while the
\* insert of the complaint reported before is still awaited
C30_Witness ==
  /\ analyzing
  /\ analyses # <<>>
  /\ analysis = NoAnalysis
  /\ ~DialogOpen
  /\ reporting
  /\ reports # <<>>

=============================================================================
